---- MODULE Spec2Model ----
(***************************************************************************)
(* A model of crawld (DevMine): the error-rate throttler (package errbag), *)
(* the GitHub rate-limit adapter and error classifier (package crawlers),  *)
(* and the repositories fetcher with its progress writer (package main).   *)
(*                                                                         *)
(* Each subsystem has its own specification over the shared variables:     *)
(*   SpecErrBag      ErrBag: Inflate / Record / errLeak / Deflate           *)
(*   SpecCall        gitHubCrawler.call around an API call function         *)
(*   SpecClassifier  gitHubCrawler.genAPICallFuncError on its inputs        *)
(*   SpecFetcher     repoWorker, its worker goroutines, the progress writer *)
(*   SpecFetcherLive SpecFetcher with its goroutines scheduled fairly       *)
(*   SpecResume      main reading the resume id from last_fetched_id        *)
(*   SpecCrawl       gitHubCrawler.Crawl with its two fetch loops           *)
(*   SpecUpsert      insertOrUpdateRepo on the repositories tables          *)
(*   SpecLink        linkUserToRepo called by concurrent crawlers           *)
(*   SpecTask        one worker's task closure on the disk                  *)
(*   SpecShutdown    main's signal handler beside workers, writer, leaker   *)
(*   SpecStartup     main from the flags to the start of the workers        *)
(*   SpecNew         errbag.New on its three parameters                     *)
(*   SpecLang        isLanguageWanted and its use by fetchRepositories      *)
(*   SpecTar         package tar: Create / Extract and their in-place forms *)
(*   SpecErrBagLive  SpecErrBag with its goroutines scheduled fairly        *)
(* The variables of the subsystems a specification does not run stay at    *)
(* their idle values.                                                      *)
(***************************************************************************)
EXTENDS Integers, Sequences, FiniteSets, TLC

(***************************************************************************)
(* Bounds of the model.                                                    *)
(***************************************************************************)
\* largest errBagSize (capacity of errChan) a configuration may choose
MaxBagSize == 2
\* largest waitTime (seconds) a configuration may choose
MaxWaitTime == 2
\* number of goroutines that call Record in SpecErrBag
NumRecorders == 2
\* number of Record calls with a non-nil error in one behaviour
MaxRecords == 4
\* number of times the provider answers "rate limit exceeded" to one call
MaxRetries == 2
\* how far ahead of the clock (seconds) a reported reset instant may lie
MaxResetAhead == 2
\* number of text fragments an error message is made of
MaxFrags == 2
\* number of rows of the repositories table (ids 1..NumRepos)
NumRepos == 2
\* largest max_fetcher_workers a configuration may choose
MaxWorkers == 2
\* number of fetch cycles in one behaviour
MaxCycles == 2
\* longest of the short progress files main may find at start-up
MaxFileLen == 3
\* largest limit a crawler configuration may choose (0: no limit)
MaxLimit == 2
\* largest number of languages a crawler configuration may list
MaxLanguages == 2
\* number of repositories the provider puts on one page
PageSize == 2
\* number of pages the provider has for one listing or one language
NumPages == 2
\* number of repositories of the provider that are upserted (github ids)
NumGhRepos == 2
\* number of calls of insertOrUpdateRepo in one behaviour
MaxUpserts == 3
\* number of crawlers crawlingWorker runs side by side
NumCrawlers == 2
\* number of rows of the table users (ids 1..NumUsers)
NumUsers == 2
\* number of calls of linkUserToRepo in one behaviour
MaxLinks == 3
\* number of tasks the worker of SpecTask receives
MaxTasks == 2
\* number of ids the progress writer receives in SpecShutdown
MaxIds == 2
\* the leak intervals tried lie this far on both sides of the smallest one
LeakSpan == 3
\* letters of the alphabet of language names, each in lower and upper case
NumLetters == 2
\* longest language name
MaxLangLen == 1
\* largest number of languages in the breakdown of a repository
MaxBreakdown == 2

VARIABLES
    \* ---- package errbag (src/crawlers/github.go:1028-1156) ----
    waitTime,     \* ErrBag.waitTime
    errChan,      \* ErrBag.errChan: buffered channel of unit tokens
    done,         \* ErrBag.done: buffered channel of capacity 1
    leakPc,       \* the errLeak goroutine: none, select, sleep, exited
    deflatePc,    \* the caller of Deflate: idle, sent, closedDone, returned
    recPc,        \* the goroutines calling Record: ready, sleeping, panicked
    recSleep,     \* seconds the time.Sleep of a throttled Record lasts
    lastRecord,   \* history: the last Record call with a non-nil error
    nRecords,     \* history: number of Record calls with a non-nil error
    obs,          \* history: what the Record calls of the current burst did
    leaks,        \* history: tokens errLeak received since the burst began
    \* ---- gitHubCrawler.call (src/crawlers/github.go:87-111) ----
    callPc,          \* idle, fct, limits, sleep, returned, panicked
    isSearchRequest, \* argument of call
    callRet,         \* local ret of call
    callErr,         \* local err of call
    callLimits,      \* local limits of call
    callWaitTime,    \* local waitTime of call
    now,             \* time.Now().Unix()
    callOut,         \* the results call hands to its caller
    callLog,         \* history: one entry per invocation of fct
    \* ---- gitHubCrawler.genAPICallFuncError (github.go:1005-1026) ----
    clsPc,        \* input, done
    clsResp,      \* argument resp: NilResp or its StatusCode
    clsErr,       \* argument err
    clsParts,     \* history: the fragments the message of clsErr is made of
    clsOut,       \* the error returned
    \* ---- repoWorker and main (src/crawld.go) ----
    cfg,          \* cfg.TarRepos, cfg.MaxFetcherWorkers
    startID,      \* startID of repoWorker
    file,         \* the bytes of <clone_dir>/last_fetched_id
    supPc,        \* repoWorker's loop: enumerate, wait, sleep; none if not run
    cycle,        \* history: number of the fetch cycle
    tasks,        \* the tasks channel of the cycle (filled, then closed)
    dequeued,     \* history: the ids received from tasks in the cycle
    sharedErr,    \* the variable err of the cycle, captured by every worker
    wk,           \* the worker goroutines of the cycle
    fileCycle,    \* history: the cycle of the last id written to the file
    \* ---- main: the resume id read at start-up (src/crawld.go) ----
    rsPc,         \* read, done; none if not run
    lastFetchedIDFile,  \* the file as main finds it: exists, bytes
    rsStartID,    \* startID as handed to repoWorker
    \* ---- gitHubCrawler.Crawl and its fetch loops (github.go:72-291) ----
    crPc,         \* crawl, list, repos, sleep, done; none if not run
    crCfg,        \* g.UseSearchAPI, g.Limit, len(g.Languages), g.Fork
    crForks,      \* the provider's repositories whose Fork field is true
    crForkSkips,  \* history: the repositories skipped for being forks
    crLang,       \* index of lang in the loop of Crawl (0 when listing)
    crN,          \* local n of the fetch function
    crSinceID,    \* local sinceID of fetchRepositories
    crOptPage,    \* opt.Page of fetchTopRepositories
    crNextPage,   \* resp.NextPage of the last search answer
    crRepos,      \* the repositories of the page not yet ranged over
    crLimited,    \* history: number of rate-limit answers to a page request
    crUpserted,   \* history: per language, the repositories upserted
    crLate,  \* history: per language, pages requested with the budget spent
    \* ---- insertOrUpdateRepo on the store (github.go:374-598) ----
    upPc,         \* idle, lookup, write, owner, ghLookup, ghWrite, org, returned
    upRepo,       \* argument repo: its ID and its other fields
    upID,         \* the id getRepoID returned
    upRepoID,     \* local repoID
    upRet,        \* the value insertOrUpdateRepo returned
    repositories, \* table repositories
    gh_repositories, \* table gh_repositories
    upNextID,     \* the sequence repositories_id_seq
    upFault,      \* per github id, the step the environment fails
    upBefore,     \* history: table repositories when the call began
    upHist,       \* history: per github id, the calls made with it
    \* ---- linkUserToRepo by concurrent crawlers (github.go:807-842) ----
    lkPc,         \* per crawler: idle, check, insert
    lkArg,        \* per crawler: arguments userID, repoID
    users_repositories, \* table users_repositories, a bag of rows
    lkCalls,      \* history: number of calls of linkUserToRepo
    \* ---- one worker's task closure on the disk (src/crawld.go:74-240) ----
    tkPc,         \* idle, tmpdir, extract, fetch, reclone, tar, rmtmp, cleanup,
                  \* end, exited; none if not run
    tkCfg,        \* cfg.TarRepos
    tkTasks,      \* number of tasks left in the channel
    tkId,         \* r.id of the task at hand
    tkDisk,       \* archive, tree at the clone path, tmpDest, tmpPath
    tkAbsPath,    \* r.AbsPath(): path or tmpDest
    tkUseTmpDir,  \* local useTmpDir
    tkDeferRm,    \* the removal of tmpPath is deferred
    tkRet,        \* the closure's result: nil or err
    tkLog,        \* history: the calls of the task and their results
    tkInit,       \* history: the disk when the task began
    tkScratch,    \* the subdirectories of cfg.TmpDir that exist
    tkPast,       \* history: per finished task, whether a step failed, emitted
    \* ---- main: signal handler and progress writer (src/crawld.go:410-441) ----
    shPc,         \* handler: wait, sync, close, deflate, exit; none if not run
    shSignal,     \* the signal sent to the process: none, interrupt, terminate
    shFile,       \* the progress file: open, written since the last Sync
    shLog,        \* history: the handler's calls in their order
    shExit,       \* the exit status of the process, NoExit while it runs
    shIds,        \* number of ids the progress writer has received
    \* ---- main: startup (src/crawld.go:336-449) ----
    stPc,         \* the statement of main to run next; none if not run
    stArgs,       \* the flags, and what the configuration and the services are
    stFailed,     \* history: the step of the startup that failed
    stExit,       \* the exit status of the process, NoExit while it runs
    \* ---- functions specified on their inputs ----
    fnPc,         \* the step to run next; none if not run
    fnIn,         \* the arguments
    fnOut         \* what has been returned, and the files where there are some

ebVars == <<waitTime, errChan, done, leakPc, deflatePc, recPc, recSleep,
            lastRecord, nRecords, obs, leaks>>

callVars == <<callPc, isSearchRequest, callRet, callErr, callLimits,
              callWaitTime, now, callOut, callLog>>

clsVars == <<clsPc, clsResp, clsErr, clsParts, clsOut>>

fetchVars == <<cfg, startID, file, supPc, cycle, tasks, dequeued, sharedErr, wk,
               fileCycle>>

resumeVars == <<rsPc, lastFetchedIDFile, rsStartID>>

\* the state of the operations that are specified on their own
crawlVars == <<crPc, crCfg, crLang, crN, crSinceID, crOptPage, crNextPage,
               crRepos, crLimited, crUpserted, crLate, crForks, crForkSkips>>

upsertVars == <<upPc, upRepo, upID, upRepoID, upRet, repositories,
                gh_repositories, upNextID, upFault, upBefore, upHist>>

linkVars == <<lkPc, lkArg, users_repositories, lkCalls>>

taskVars == <<tkPc, tkCfg, tkTasks, tkId, tkDisk, tkAbsPath, tkUseTmpDir,
              tkDeferRm, tkRet, tkLog, tkInit, tkScratch, tkPast>>

\* the operations added after the first ones
shutVars == <<shPc, shSignal, shFile, shLog, shExit, shIds>>

startVars == <<stPc, stArgs, stFailed, stExit>>

fnVars == <<fnPc, fnIn, fnOut>>

moreVars == <<taskVars, shutVars, startVars, fnVars>>

auxVars == <<resumeVars, crawlVars, upsertVars, linkVars, moreVars>>

baseVars == <<ebVars, callVars, clsVars, fetchVars>>

vars == <<ebVars, callVars, clsVars, fetchVars, auxVars>>

nonEbVars == <<callVars, clsVars, fetchVars, auxVars>>

(***************************************************************************)
(* The idle values of the subsystems a specification does not run.         *)
(***************************************************************************)
CallIdle ==
    /\ callPc = "idle"
    /\ isSearchRequest = FALSE
    /\ callRet = [id |-> "nil", msg |-> <<>>]
    /\ callErr = [id |-> "nil", msg |-> <<>>]
    /\ callLimits = [isNil |-> TRUE, Core |-> 0, Search |-> 0]
    /\ callWaitTime = 0
    /\ now = 1
    /\ callOut = <<>>
    /\ callLog = <<>>

ClassifierIdle ==
    /\ clsPc = "done"
    /\ clsResp = [isNil |-> TRUE, StatusCode |-> 0]
    /\ clsErr = [id |-> "nil", msg |-> <<>>]
    /\ clsParts = <<>>
    /\ clsOut = [id |-> "nil", msg |-> <<>>]

ResumeIdle ==
    /\ rsPc = "none"
    /\ lastFetchedIDFile = [exists |-> FALSE, bytes |-> <<>>]
    /\ rsStartID = 0

CrawlIdle ==
    /\ crPc = "none"
    /\ crCfg = [UseSearchAPI |-> FALSE, Limit |-> 0, NumLanguages |-> 0,
                Fork |-> FALSE]
    /\ crForks = {}
    /\ crForkSkips = {}
    /\ crLang = 0
    /\ crN = 0
    /\ crSinceID = 0
    /\ crOptPage = 0
    /\ crNextPage = 0
    /\ crRepos = <<>>
    /\ crLimited = 0
    /\ crUpserted = <<>>
    /\ crLate = <<>>

UpsertIdle ==
    /\ upPc = "none"
    /\ upRepo = [ID |-> 0, Name |-> "a"]
    /\ upID = 0
    /\ upRepoID = 0
    /\ upRet = FALSE
    /\ repositories = {}
    /\ gh_repositories = {}
    /\ upNextID = 1
    /\ upFault = <<>>
    /\ upBefore = {}
    /\ upHist = <<>>

LinkIdle ==
    /\ lkPc = <<>>
    /\ lkArg = <<>>
    /\ users_repositories = <<>>
    /\ lkCalls = 0

NoArchive == [content |-> "none", big |-> FALSE, bad |-> FALSE]

NoDisk == [arch |-> NoArchive, tree |-> "none", tmpDest |-> "none", tmpPath |-> 0]

TaskIdle ==
    /\ tkPc = "none"
    /\ tkCfg = [TarRepos |-> FALSE]
    /\ tkTasks = 0
    /\ tkId = 0
    /\ tkDisk = NoDisk
    /\ tkAbsPath = "path"
    /\ tkUseTmpDir = FALSE
    /\ tkDeferRm = FALSE
    /\ tkRet = "nil"
    /\ tkLog = <<>>
    /\ tkInit = NoDisk
    /\ tkScratch = {}
    /\ tkPast = <<>>

\* the process runs
NoExit == -1

ClosedFile == [open |-> FALSE, dirty |-> FALSE]

ShutIdle ==
    /\ shPc = "none"
    /\ shSignal = "none"
    /\ shFile = ClosedFile
    /\ shLog = <<>>
    /\ shExit = NoExit
    /\ shIds = 0

NoArgs == [configPath |-> FALSE, config |-> "unreadable",
           crawlInterval |-> FALSE, fetchInterval |-> FALSE, db |-> FALSE,
           crawlers |-> FALSE, throttler |-> FALSE, idFile |-> FALSE,
           disableCrawlers |-> FALSE, disableFetcher |-> FALSE]

StartIdle ==
    /\ stPc = "none"
    /\ stArgs = NoArgs
    /\ stFailed = "none"
    /\ stExit = NoExit

FnIdle ==
    /\ fnPc = "none"
    /\ fnIn = <<>>
    /\ fnOut = <<>>

MoreIdle == TaskIdle /\ ShutIdle /\ StartIdle /\ FnIdle

AuxIdle == ResumeIdle /\ CrawlIdle /\ UpsertIdle /\ LinkIdle /\ MoreIdle

FetcherIdle ==
    /\ cfg = [TarRepos |-> FALSE, MaxFetcherWorkers |-> 1]
    /\ startID = 0
    /\ file = <<>>
    /\ supPc = "none"
    /\ cycle = 0
    /\ tasks = <<>>
    /\ dequeued = <<>>
    /\ sharedErr = "nil"
    /\ wk = <<>>
    /\ fileCycle = 0

ErrBagIdle ==
    /\ waitTime = 1
    /\ errChan = [buf |-> 0, cap |-> 1, closed |-> FALSE]
    /\ done = [buf |-> 0, cap |-> 1, closed |-> FALSE]
    /\ leakPc = "none"
    /\ deflatePc = "idle"
    /\ recPc = <<>>
    /\ recSleep = <<>>
    /\ lastRecord = [by |-> 0, outcome |-> "none"]
    /\ nRecords = 0
    /\ obs = <<>>
    /\ leaks = 0

(***************************************************************************)
(* Go channels. A channel of struct{} is the number of buffered tokens,    *)
(* its capacity and whether it has been closed.                            *)
(***************************************************************************)
MakeChan(capacity) == [buf |-> 0, cap |-> capacity, closed |-> FALSE]

\* a receive can proceed when a token is buffered or the channel is closed
\* (a closed channel yields its buffered tokens first, then zero values)
CanRecv(ch) == ch.buf > 0 \/ ch.closed

ChanRecv(ch) == [ch EXCEPT !.buf = IF @ > 0 THEN @ - 1 ELSE 0]

\* a blocking send can proceed when the buffer has room; on a closed
\* channel it panics
CanSend(ch) == ch.closed \/ ch.buf < ch.cap

ChanClose(ch) == [ch EXCEPT !.closed = TRUE]

(***************************************************************************)
(* package errbag                                                          *)
(***************************************************************************)
StatusThrottling == 0
StatusOK == 1

NoErr == "nil"
Recorders == 1..NumRecorders

NoStatus == [State |-> -1, WaitTime |-> 0]

\* the select of Record: "case eb.errChan <- struct{}{}:" against "default:".
\* The send case panics on a closed channel, whether or not the buffer is
\* full; otherwise it is taken when the buffer has room.
SelectSendFullFirst(ch) ==
    IF ch.buf >= ch.cap THEN "default"
    ELSE IF ch.closed THEN "panic"
    ELSE "sent"

SelectSendOffByOne(ch) ==
    IF ch.closed THEN "panic"
    ELSE IF ch.buf <= ch.cap THEN "sent"
    ELSE "default"

SelectSend(ch) ==
    IF ch.closed THEN "panic"
    ELSE IF ch.buf < ch.cap THEN "sent"
    ELSE "default"

\* Record(err, callback): what one call does to errChan, the Status handed
\* to the callback and the seconds the caller then sleeps.
RecordNoSleep(ch, wt, err) ==
    IF err = NoErr
    THEN [errChan |-> ch, outcome |-> "noop", status |-> NoStatus, sleep |-> 0]
    ELSE LET sel == SelectSend(ch) IN
         IF sel = "panic"
         THEN [errChan |-> ch, outcome |-> "panic", status |-> NoStatus, sleep |-> 0]
         ELSE IF sel = "sent"
         THEN [errChan |-> [ch EXCEPT !.buf = @ + 1], outcome |-> "ok",
               status |-> [State |-> StatusOK, WaitTime |-> 0], sleep |-> 0]
         ELSE [errChan |-> ch, outcome |-> "throttle",
               status |-> [State |-> StatusThrottling, WaitTime |-> wt],
               sleep |-> 0]

RecordResult(ch, wt, err) ==
    IF err = NoErr
    THEN [errChan |-> ch, outcome |-> "noop", status |-> NoStatus, sleep |-> 0]
    ELSE LET sel == SelectSend(ch) IN
         IF sel = "panic"
         THEN [errChan |-> ch, outcome |-> "panic", status |-> NoStatus, sleep |-> 0]
         ELSE IF sel = "sent"
         THEN [errChan |-> [ch EXCEPT !.buf = @ + 1], outcome |-> "ok",
               status |-> [State |-> StatusOK, WaitTime |-> 0], sleep |-> 0]
         ELSE [errChan |-> ch, outcome |-> "throttle",
               status |-> [State |-> StatusThrottling, WaitTime |-> wt],
               sleep |-> wt]

NoRecord == [by |-> 0, outcome |-> "none", reported |-> NoStatus, slept |-> 0,
             during |-> "idle", full |-> FALSE]

\* New(waitTime, errBagSize, leakInterval) followed by nothing else: the
\* channels are made, no goroutine runs.
ErrBagNew ==
    /\ waitTime \in 1..MaxWaitTime
    /\ \E size \in 1..MaxBagSize : errChan = MakeChan(size)
    /\ done = MakeChan(1)
    /\ leakPc = "none"
    /\ deflatePc = "idle"
    /\ recPc = [r \in Recorders |-> "ready"]
    /\ recSleep = [r \in Recorders |-> 0]
    /\ lastRecord = NoRecord
    /\ nRecords = 0
    /\ obs = <<>>
    /\ leaks = 0

\* Inflate: starts the goroutine that runs errLeak and waits until it runs.
Inflate ==
    /\ leakPc = "none"
    /\ leakPc' = "select"
    /\ UNCHANGED <<waitTime, errChan, done, deflatePc, recPc, recSleep,
                   lastRecord, nRecords, obs, leaks>>
    /\ UNCHANGED nonEbVars

\* errLeak, "case <-eb.done: return"
LeakDone ==
    /\ leakPc = "select"
    /\ CanRecv(done)
    /\ done' = ChanRecv(done)
    /\ leakPc' = "exited"
    /\ UNCHANGED <<waitTime, errChan, deflatePc, recPc, recSleep,
                   lastRecord, nRecords, obs, leaks>>
    /\ UNCHANGED nonEbVars

\* errLeak, "case <-eb.errChan:" followed by the start of time.Sleep
LeakToken ==
    /\ leakPc = "select"
    /\ CanRecv(errChan)
    /\ errChan' = ChanRecv(errChan)
    /\ leaks' = IF errChan.buf > 0 /\ obs # <<>> THEN leaks + 1 ELSE leaks
    /\ leakPc' = "sleep"
    /\ UNCHANGED <<waitTime, done, deflatePc, recPc, recSleep,
                   lastRecord, nRecords, obs>>
    /\ UNCHANGED nonEbVars

\* a leaker whose time.Sleep never returns
LeakNeverWakes ==
    /\ leakPc = "sleep"
    /\ UNCHANGED vars

\* errLeak, the end of time.Sleep(leakInterval): back to the select
LeakWake ==
    /\ leakPc = "sleep"
    /\ leakPc' = "select"
    /\ UNCHANGED <<waitTime, errChan, done, deflatePc, recPc, recSleep,
                   lastRecord, nRecords, obs, leaks>>
    /\ UNCHANGED nonEbVars

\* Deflate, "eb.done <- struct{}{}": blocks while the buffer of done is full
DeflateSend ==
    /\ deflatePc = "idle"
    /\ CanSend(done)
    /\ ~done.closed
    /\ done' = [done EXCEPT !.buf = @ + 1]
    /\ deflatePc' = "sent"
    /\ UNCHANGED <<waitTime, errChan, leakPc, recPc, recSleep,
                   lastRecord, nRecords, obs, leaks>>
    /\ UNCHANGED nonEbVars

\* Deflate, "close(eb.done)"
DeflateCloseDone ==
    /\ deflatePc = "sent"
    /\ done' = ChanClose(done)
    /\ deflatePc' = "closedDone"
    /\ UNCHANGED <<waitTime, errChan, leakPc, recPc, recSleep,
                   lastRecord, nRecords, obs, leaks>>
    /\ UNCHANGED nonEbVars

\* Deflate, "close(eb.errChan)" and the return
DeflateCloseErrChan ==
    /\ deflatePc = "closedDone"
    /\ errChan' = ChanClose(errChan)
    /\ deflatePc' = "returned"
    /\ UNCHANGED <<waitTime, done, leakPc, recPc, recSleep,
                   lastRecord, nRecords, obs, leaks>>
    /\ UNCHANGED nonEbVars

\* One call of Record by goroutine r, up to the start of its time.Sleep.
\* The history variables log the call; a call that finds the bucket empty
\* may be taken as the first of a new burst.
RecordCall(r, err, cb) ==
    LET res == RecordResult(errChan, waitTime, err)
        entry == [State |-> res.status.State, WaitTime |-> res.status.WaitTime,
                  slept |-> res.sleep, leaks |-> leaks] IN
    /\ recPc[r] = "ready"
    /\ errChan' = res.errChan
    /\ recPc' = [recPc EXCEPT ![r] =
                    IF res.outcome = "panic" THEN "panicked"
                    ELSE IF res.sleep > 0 THEN "sleeping" ELSE "ready"]
    /\ recSleep' = [recSleep EXCEPT ![r] = res.sleep]
    /\ IF err = NoErr
       THEN UNCHANGED <<lastRecord, nRecords, obs, leaks>>
       ELSE /\ nRecords < MaxRecords
            /\ nRecords' = nRecords + 1
            /\ lastRecord' = [by |-> r, outcome |-> res.outcome,
                              reported |-> IF cb THEN res.status ELSE NoStatus,
                              slept |-> res.sleep,
                              during |-> deflatePc,
                              full |-> errChan.buf >= errChan.cap]
            /\ IF res.outcome = "panic"
               THEN UNCHANGED <<obs, leaks>>
               ELSE \E fresh \in (IF errChan.buf = 0 THEN BOOLEAN ELSE {FALSE}) :
                      IF fresh
                      THEN /\ obs' = <<[entry EXCEPT !.leaks = 0]>>
                           /\ leaks' = 0
                      ELSE /\ obs' = Append(obs, entry)
                           /\ UNCHANGED leaks
    /\ UNCHANGED <<waitTime, done, leakPc, deflatePc>>
    /\ UNCHANGED nonEbVars

Record ==
    \E r \in Recorders, err \in {NoErr, "foo error"}, cb \in BOOLEAN :
        RecordCall(r, err, cb)

\* the end of the time.Sleep(waitTime) of a throttled Record: it returns
RecordWake ==
    \E r \in Recorders :
        /\ recPc[r] = "sleeping"
        /\ recPc' = [recPc EXCEPT ![r] = "ready"]
        /\ recSleep' = [recSleep EXCEPT ![r] = 0]
        /\ UNCHANGED <<waitTime, errChan, done, leakPc, deflatePc,
                       lastRecord, nRecords, obs, leaks>>
        /\ UNCHANGED nonEbVars

InitErrBag ==
    ErrBagNew /\ CallIdle /\ ClassifierIdle /\ FetcherIdle /\ AuxIdle

NextErrBag ==
    \/ Inflate
    \/ LeakDone
    \/ LeakToken
    \/ LeakWake
    \/ DeflateSend
    \/ DeflateCloseDone
    \/ DeflateCloseErrChan
    \/ Record
    \/ RecordWake

SpecErrBag == InitErrBag /\ [][NextErrBag]_vars

(***************************************************************************)
(* Claims about the throttler, checked under SpecErrBag.                   *)
(***************************************************************************)
Throttled(e) ==
    /\ e.State = StatusThrottling
    /\ e.WaitTime = waitTime
    /\ e.slept = waitTime

Passed(e) ==
    /\ e.State = StatusOK
    /\ e.WaitTime = 0
    /\ e.slept = 0

\* C4: counting the Record calls with a non-nil error from an empty bucket
\* of capacity C, as long as errLeak has received no token the k-th call
\* reports StatusOK with WaitTime 0 and does not sleep when k <= C, and
\* reports StatusThrottling with WaitTime = waitTime and sleeps waitTime
\* seconds when k > C; a goroutine asleep in Record sleeps waitTime seconds.
C4_RecordThrottlesAfterCapacity ==
    /\ \A k \in 1..Len(obs) :
          obs[k].leaks = 0 =>
              IF k <= errChan.cap THEN Passed(obs[k]) ELSE Throttled(obs[k])
    /\ \A r \in Recorders :
          (recPc[r] = "sleeping") <=> (recSleep[r] = waitTime)

C4_Witness ==
    /\ Len(obs) > errChan.cap
    /\ obs[Len(obs)].leaks = 0
    /\ Throttled(obs[Len(obs)])
    /\ lastRecord.reported = [State |-> StatusThrottling, WaitTime |-> waitTime]
    /\ recPc[lastRecord.by] = "sleeping"

C6_RecordAfterDeflatePanics ==
    lastRecord.during = "returned" =>
        /\ lastRecord.outcome = "panic"
        /\ lastRecord.slept = 0
        /\ recPc[lastRecord.by] = "panicked"

C6_Witness ==
    /\ lastRecord.during = "returned"
    /\ lastRecord.full
    /\ lastRecord.outcome = "panic"

\* C7 as stated: once Deflate has returned, with every Record call made
\* before Deflate began, both channels are closed and errChan holds no
\* token.
C7_AsStated ==
    (deflatePc = "returned" /\ lastRecord.during = "idle") =>
        /\ done.closed
        /\ errChan.closed
        /\ errChan.buf = 0

(***************************************************************************)
(* package crawlers: errors. An error is its identity and its message, a   *)
(* sequence of characters; the package's own errors are compared by        *)
(* identity.                                                               *)
(***************************************************************************)
TextRateLimit ==
    <<"A", "P", "I", " ", "r", "a", "t", "e", " ", "l", "i", "m", "i", "t",
      " ", "e", "x", "c", "e", "e", "d", "e", "d">>

TextAccessBlocked ==
    <<"a", "c", "c", "e", "s", "s", " ", "b", "l", "o", "c", "k", "e", "d">>

TextUnavailable ==
    <<"r", "e", "s", "o", "u", "r", "c", "e", " ", "u", "n", "a", "v", "a",
      "i", "l", "a", "b", "l", "e">>

TextInvalidArgs ==
    <<"i", "n", "v", "a", "l", "i", "d", " ", "a", "r", "g", "u", "m", "e",
      "n", "t", "s">>

TextNilArg ==
    <<"n", "i", "l", " ", "a", "r", "g", "u", "m", "e", "n", "t">>

TextApiRateLimit ==
    <<"A", "P", "I", " ", "r", "a", "t", "e", " ", "l", "i", "m", "i", "t">>

TextAccessBlockedCaps ==
    <<"A", "c", "c", "e", "s", "s", " ", "B", "l", "o", "c", "k", "e", "d">>

TextNotFound ==
    <<"4", "0", "4", " ", "N", "o", "t", " ", "F", "o", "u", "n", "d">>

TextColon ==
    <<":", " ">>

TextTimeout ==
    <<"i", "/", "o", " ", "t", "i", "m", "e", "o", "u", "t">>

NilError == [id |-> "nil", msg |-> <<>>]
errTooManyCall == [id |-> "errTooManyCall", msg |-> TextRateLimit]
errUnavailable == [id |-> "errUnavailable", msg |-> TextUnavailable]
errInvalidArgs == [id |-> "errInvalidArgs", msg |-> TextInvalidArgs]
errNilArg == [id |-> "errNilArg", msg |-> TextNilArg]

\* an error made by the GitHub client library, with the given message
ApiError(text) == [id |-> "github", msg |-> text]

NilResp == [isNil |-> TRUE, StatusCode |-> 0]
Resp(code) == [isNil |-> FALSE, StatusCode |-> code]

\* strings.Contains(s, substr)
Contains(s, substr) ==
    \E i \in 0..(Len(s) - Len(substr)) :
        \A j \in 1..Len(substr) : s[i + j] = substr[j]

\* genAPICallFuncError(resp, err)
genAPICallFuncErrorBlockedFirst(resp, e) ==
    IF resp.isNil
    THEN IF e # NilError THEN e ELSE errNilArg
    ELSE IF e = NilError \/ resp.StatusCode # 403
    THEN e
    ELSE IF Contains(e.msg, TextAccessBlocked) THEN errUnavailable
    ELSE IF Contains(e.msg, TextRateLimit) THEN errTooManyCall
    ELSE e

genAPICallFuncError(resp, e) ==
    IF resp.isNil
    THEN IF e # NilError THEN e ELSE errNilArg
    ELSE IF e = NilError \/ resp.StatusCode # 403
    THEN e
    ELSE IF Contains(e.msg, TextRateLimit) THEN errTooManyCall
    ELSE IF Contains(e.msg, TextAccessBlocked) THEN errUnavailable
    ELSE e

(***************************************************************************)
(* SpecCall: one execution of gitHubCrawler.call around an apiCallFunc.    *)
(***************************************************************************)
\* the interface{} values an apiCallFunc returns: nil or a fetched object
NilValue == [id |-> "nil", msg |-> <<>>]
SomeValue == [id |-> "value", msg |-> <<>>]

\* what the GitHub client library answers when an API call fails
ApiFailures ==
    { [resp |-> Resp(403), e |-> ApiError(TextColon \o TextRateLimit)],
      [resp |-> Resp(403), e |-> ApiError(TextColon \o TextAccessBlocked)],
      [resp |-> Resp(404), e |-> ApiError(TextNotFound)],
      [resp |-> NilResp, e |-> ApiError(TextTimeout)] }

\* the results of an apiCallFunc such as fetchRepository or
\* fetchRepositories: a value or nil without error, nil with errInvalidArgs,
\* nil with the classified error of a failed API call
FctResults ==
    { [ret |-> NilValue, err |-> NilError],
      [ret |-> SomeValue, err |-> NilError],
      [ret |-> NilValue, err |-> errInvalidArgs] }
    \cup { [ret |-> NilValue, err |-> genAPICallFuncError(f.resp, f.e)] :
              f \in ApiFailures }

NilLimits == [isNil |-> TRUE, Core |-> 0, Search |-> 0]

\* g.client.RateLimits() at time t: the reset instants of the core and of
\* the search bucket, or nil when the query fails
LimitsAt(t) ==
    { [isNil |-> FALSE, Core |-> c, Search |-> s] :
          c \in (t - 1)..(t + MaxResetAhead), s \in (t - 1)..(t + MaxResetAhead) }
    \cup {NilLimits}

\* "if ret, err = fct(args...); err != errTooManyCall { break }"
Retries(e) == e = errTooManyCall

\* "if isSearchRequest { reset = limits.Search.Reset.Unix() } else { ... }"
ResetOf(isSearch, limits) ==
    IF isSearch THEN limits.Search ELSE limits.Core

\* "waitTime := reset - time.Now().Unix() + 1"
WaitTimeNoMargin(reset, t) == reset - t

WaitTimeOf(reset, t) == reset - t + 1

\* "return ret": call has one result, the value; err is not returned
CallResultsWithError(r, e) == <<r, e>>

CallResults(r, e) == <<r>>

NumSentinels == Cardinality({i \in 1..Len(callLog) : callLog[i].err = errTooManyCall})

InitCall ==
    /\ callPc = "idle"
    /\ isSearchRequest = FALSE
    /\ callRet = NilValue
    /\ callErr = NilError
    /\ callLimits = NilLimits
    /\ callWaitTime = 0
    /\ now = 1
    /\ callOut = <<>>
    /\ callLog = <<>>
    /\ ErrBagIdle
    /\ ClassifierIdle
    /\ FetcherIdle
    /\ AuxIdle

\* call is entered, for a request of the core or of the search API
CallEnter ==
    /\ callPc = "idle"
    /\ isSearchRequest' \in BOOLEAN
    /\ callPc' = "fct"
    /\ UNCHANGED <<callRet, callErr, callLimits, callWaitTime, now, callOut,
                   callLog>>
    /\ UNCHANGED <<ebVars, clsVars, fetchVars, auxVars>>

\* one turn of the loop: fct is invoked; call breaks out and returns ret
\* unless err is errTooManyCall
CallFct ==
    /\ callPc = "fct"
    /\ \E res \in FctResults :
          /\ res.err = errTooManyCall => NumSentinels < MaxRetries
          /\ callRet' = res.ret
          /\ callErr' = res.err
          /\ callLog' = Append(callLog, [ret |-> res.ret, err |-> res.err,
                                         at |-> now, limits |-> callLimits])
          /\ IF Retries(res.err)
             THEN /\ callPc' = "limits"
                  /\ UNCHANGED callOut
             ELSE /\ callPc' = "returned"
                  /\ callOut' = CallResults(res.ret, res.err)
    /\ UNCHANGED <<isSearchRequest, callLimits, callWaitTime, now>>
    /\ UNCHANGED <<ebVars, clsVars, fetchVars, auxVars>>

\* "limits, _, _ := g.client.RateLimits()" up to the computation of
\* waitTime; the error of RateLimits is dropped, and reading the reset
\* instant of nil limits is a nil pointer dereference
CallRateLimits ==
    /\ callPc = "limits"
    /\ \E limits \in LimitsAt(now) :
          /\ callLimits' = limits
          /\ IF limits.isNil
             THEN /\ callPc' = "panicked"
                  /\ UNCHANGED callWaitTime
             ELSE /\ callWaitTime' = WaitTimeOf(ResetOf(isSearchRequest, limits), now)
                  /\ callPc' = "sleep"
    /\ UNCHANGED <<isSearchRequest, callRet, callErr, now, callOut, callLog>>
    /\ UNCHANGED <<ebVars, clsVars, fetchVars, auxVars>>

\* "time.Sleep(time.Duration(waitTime) * time.Second)": returns at once for
\* a waitTime <= 0, and otherwise no earlier than waitTime seconds later
CallSleep ==
    /\ callPc = "sleep"
    /\ \E late \in 0..1 :
          now' = now + (IF callWaitTime > 0 THEN callWaitTime ELSE 0) + late
    /\ callPc' = "fct"
    /\ UNCHANGED <<isSearchRequest, callRet, callErr, callLimits, callWaitTime,
                   callOut, callLog>>
    /\ UNCHANGED <<ebVars, clsVars, fetchVars, auxVars>>

NextCall ==
    \/ CallEnter
    \/ CallFct
    \/ CallRateLimits
    \/ CallSleep

SpecCall == InitCall /\ [][NextCall]_vars

C9_AsStated ==
    (callPc = "returned" /\ callErr # NilError) =>
        \E i \in 1..Len(callOut) : callOut[i] = callErr

\* C9 amended: when fct returns an error other than errTooManyCall, call
\* stops retrying and returns only the value fct returned with it; the
\* error itself is not handed to the caller.
C9_ErrorDropped ==
    callPc = "returned" =>
        /\ callOut = <<callLog[Len(callLog)].ret>>
        /\ \A i \in 1..Len(callOut) : callErr # NilError => callOut[i] # callErr

C9_Witness ==
    /\ callPc = "returned"
    /\ callErr = errUnavailable
    /\ Len(callLog) = 2
    /\ callOut = <<NilValue>>

(***************************************************************************)
(* SpecClassifier: genAPICallFuncError applied to a response and an error  *)
(* whose message is a concatenation of text fragments.                     *)
(***************************************************************************)
FragmentText(f) ==
    CASE f = "rate" -> TextRateLimit
      [] f = "blocked" -> TextAccessBlocked
      [] f = "ratePrefix" -> TextApiRateLimit
      [] f = "blockedCaps" -> TextAccessBlockedCaps
      [] f = "notFound" -> TextNotFound
      [] f = "colon" -> TextColon

Fragments == {"rate", "blocked", "ratePrefix", "blockedCaps", "notFound", "colon"}

RECURSIVE Flatten(_)
Flatten(parts) ==
    IF parts = <<>> THEN <<>>
    ELSE FragmentText(Head(parts)) \o Flatten(Tail(parts))

PartLists == UNION {[1..n -> Fragments] : n \in 0..MaxFrags}

StatusCodes == {200, 403, 404, 500}

InitClassifier ==
    /\ clsPc = "input"
    /\ clsResp \in {NilResp} \cup {Resp(c) : c \in StatusCodes}
    /\ \E parts \in PartLists, isNil \in BOOLEAN :
          /\ clsParts = (IF isNil THEN <<>> ELSE parts)
          /\ clsErr = (IF isNil THEN NilError ELSE ApiError(Flatten(parts)))
    /\ clsOut = NilError
    /\ ErrBagIdle
    /\ CallIdle
    /\ FetcherIdle
    /\ AuxIdle

Classify ==
    /\ clsPc = "input"
    /\ clsOut' = genAPICallFuncError(clsResp, clsErr)
    /\ clsPc' = "done"
    /\ UNCHANGED <<clsResp, clsErr, clsParts>>
    /\ UNCHANGED <<ebVars, callVars, fetchVars, auxVars>>

NextClassifier == Classify

SpecClassifier == InitClassifier /\ [][NextClassifier]_vars

HasPart(f) == \E i \in 1..Len(clsParts) : clsParts[i] = f

\* C10: for a response with a status and an error, status 403 with a
\* message holding the rate-limit text gives errTooManyCall; status 403
\* with a message holding "access blocked" and not the rate-limit text gives
\* errUnavailable; every other error, and every error under another status,
\* comes back unchanged, and no error stays no error.
C10_ClassifierTable ==
    (clsPc = "done" /\ ~clsResp.isNil) =>
        IF clsErr = NilError THEN clsOut = NilError
        ELSE IF clsResp.StatusCode = 403 /\ HasPart("rate")
        THEN clsOut = errTooManyCall
        ELSE IF clsResp.StatusCode = 403 /\ HasPart("blocked")
        THEN clsOut = errUnavailable
        ELSE clsOut = clsErr

C10_Witness ==
    /\ clsPc = "done"
    /\ clsResp = Resp(403)
    /\ clsParts = <<"blocked", "rate">>
    /\ clsOut = errTooManyCall

(***************************************************************************)
(* The fetcher: main's start-up, repoWorker, its worker goroutines and the *)
(* goroutine that writes last_fetched_id (src/crawld.go).                  *)
(*                                                                         *)
(* The file system, the VCS backends and tar are the environment: every    *)
(* call into them picks its outcome.  The rows of the repositories table   *)
(* are 1..NumRepos, all of them rows getAllRepos can scan and build.  A    *)
(* worker that Record throttles only sleeps, so the sleep is not a state.  *)
(***************************************************************************)

Workers == 1..MaxWorkers

Digits == <<"0", "1", "2", "3", "4", "5", "6", "7", "8", "9">>

IsDigit(c) == \E d \in 1..10 : Digits[d] = c

DigitValue(c) == (CHOOSE d \in 1..10 : Digits[d] = c) - 1

RECURSIVE Decimal(_)
\* %d of an unsigned integer
Decimal(n) ==
    IF n < 10 THEN <<Digits[n + 1]>>
    ELSE Decimal(n \div 10) \o <<Digits[(n % 10) + 1]>>

\* %0<width>d: zeroes on the left up to the width, never a truncation
ZeroPad(s, width) ==
    IF Len(s) >= width THEN s
    ELSE [i \in 1..(width - Len(s)) |-> "0"] \o s

\* fmt.Fprintf(f, "%020d", id)
Format020(id) == ZeroPad(Decimal(id), 20)

\* a write at offset 0 of a file opened without O_TRUNC: the bytes behind
\* the written ones stay
WriteAt0(f, bytes) == bytes \o SubSeq(f, Len(bytes) + 1, Len(f))

RECURSIVE Horner(_, _)
Horner(s, acc) ==
    IF s = <<>> THEN acc ELSE Horner(Tail(s), acc * 10 + DigitValue(Head(s)))

\* the digits of 1<<64 - 1
MaxUint64Digits ==
    <<"1", "8", "4", "4", "6", "7", "4", "4", "0", "7", "3", "7", "0", "9",
      "5", "5", "1", "6", "1", "5">>

RECURSIVE StripZeros(_)
StripZeros(s) ==
    IF s # <<>> /\ Head(s) = "0" THEN StripZeros(Tail(s)) ELSE s

\* digits a above digits b of the same length
DigitsAbove(a, b) ==
    \E i \in 1..Len(a) :
        /\ DigitValue(a[i]) > DigitValue(b[i])
        /\ \A j \in 1..(i - 1) : a[j] = b[j]

\* the number a text of digits denotes does not fit 64 bits
OutOfRange(s) ==
    LET sig == StripZeros(s) IN
    \/ Len(sig) > 20
    \/ Len(sig) = 20 /\ DigitsAbove(sig, MaxUint64Digits)

\* a ParseUint that trims the white space around the number
ParseUintTrimmed(s) ==
    LET t == SelectSeq(s, LAMBDA c : c # "\n") IN
    IF t = <<>> \/ \E i \in 1..Len(t) : ~IsDigit(t[i]) \/ OutOfRange(t)
    THEN [ok |-> FALSE, value |-> 0]
    ELSE [ok |-> TRUE, value |-> Horner(StripZeros(t), 0)]

\* strconv.ParseUint(s, 10, 64): a syntax error for the empty text and for
\* any byte but a digit, a range error above 1<<64 - 1; the texts of the
\* model that parse have small values
ParseUint(s) ==
    IF s = <<>> \/ \E i \in 1..Len(s) : ~IsDigit(s[i])
    THEN [ok |-> FALSE, value |-> 0]
    ELSE IF OutOfRange(s)
    THEN [ok |-> FALSE, value |-> 0]
    ELSE [ok |-> TRUE, value |-> Horner(StripZeros(s), 0)]

\* what last_fetched_id can be when the program starts
InitialFiles ==
    {[exists |-> FALSE, bytes |-> <<>>],
     [exists |-> TRUE, bytes |-> <<>>],
     [exists |-> TRUE, bytes |-> <<"x">>],
     [exists |-> TRUE, bytes |-> <<"2">>],
     [exists |-> TRUE, bytes |-> Format020(1) \o <<"\n">>]}
    \cup {[exists |-> TRUE, bytes |-> Format020(n)] : n \in 1..NumRepos}

\* main: startID from the file
ReadStartID(f) ==
    IF f.exists /\ Len(f.bytes) # 0
    THEN LET p == ParseUint(f.bytes) IN IF p.ok THEN p.value ELSE 0
    ELSE 0

\* a cycle that lists the table from the first row whatever startID is
getAllReposFromFirst(start) == [i \in 1..NumRepos |-> i]

\* a listing without ORDER BY id, here from the last row to the first
getAllReposDescending(start) ==
    LET first == IF start < 1 THEN 1 ELSE start IN
    IF first > NumRepos THEN <<>>
    ELSE [i \in 1..(NumRepos - first + 1) |-> NumRepos - i + 1]

\* a listing WHERE id > startID
getAllReposAfter(start) ==
    IF start + 1 > NumRepos THEN <<>>
    ELSE [i \in 1..(NumRepos - start) |-> start + i]

\* getAllRepos: WHERE id >= startID ORDER BY id
getAllRepos(start) ==
    LET first == IF start < 1 THEN 1 ELSE start IN
    IF first > NumRepos THEN <<>>
    ELSE [i \in 1..(NumRepos - first + 1) |-> first + i - 1]

NoWorker == [pc |-> "none", id |-> 0, ret |-> "nil", tmp |-> FALSE,
             fetched |-> FALSE, failedStep |-> "none", ran |-> {}, cyc |-> 0]

\* a worker between two tasks; ret is the closure's result, tmp tells that
\* the removal of the scratch directory is deferred; fetched, failedStep
\* (the last step of the task that returned an error), cyc (the cycle the
\* task was received in) and ran (the steps
\* the task has run; "extract" is the look for an archive and, if there is
\* one, its extraction) are history
IdleWorker == [NoWorker EXCEPT !.pc = "idle"]

ErrOf(ok) == IF ok THEN "nil" ELSE "err"

\* an "if err == nil" that lets every task through
EmitsAlways(ret) == TRUE

\* if err == nil { idChan <- r.id }
Emits(ret) == ret = "nil"

\* what the closures clone and update return
FetchReturns(outcome) ==
    IF outcome \in {"cloneOK", "updateOK"} THEN "nil" ELSE "err"

ExtractOutcomes == {"noArchive", "extracted", "extractFailed"}

FetchOutcomes ==
    {"cloneOK", "cloneErr", "updateOK", "updateNetErr", "updateOtherErr"}

\* the deferred calls run last-in first-out: the removal of the scratch
\* directory when it was registered, then Cleanup
FirstDeferred(rec) == IF rec.tmp THEN "rmtmp" ELSE "cleanup"

\* a deferred call has run and has assigned the shared err
RunDeferred(rec, step, ok) ==
    [rec EXCEPT !.pc = IF step = "rmtmp" THEN "chkRm" ELSE "chkCl",
                !.ran = @ \cup {step},
                !.failedStep = IF ok THEN @ ELSE step]

\* the closure returns: its first deferred call runs
Return(rec, ok) == RunDeferred(rec, FirstDeferred(rec), ok)

\* the working tree is there: the archive is created when cfg.TarRepos,
\* and the closure returns nil
AfterFetch(rec, ok) ==
    IF cfg.TarRepos
    THEN [rec EXCEPT !.pc = "chkTar", !.ran = @ \cup {"tar"},
                     !.failedStep = IF ok THEN @ ELSE "tar"]
    ELSE Return(rec, ok)

Crashed == \E w \in Workers : wk[w].pc = "panicked"

\* a wg.Wait() that returns at the first wg.Done()
WgWaitForOne == \E w \in 1..cfg.MaxFetcherWorkers : wk[w].pc = "exited"

\* wg.Wait(): every worker of the cycle has called wg.Done()
WgWait == \A w \in 1..cfg.MaxFetcherWorkers : wk[w].pc = "exited"

\* a receive that leaves the task in the channel
TasksAfterPeek(ts) == ts

\* r := <-tasks takes the first task out of the channel
TasksAfterRecv(ts) == Tail(ts)

\* a range over a channel that is never closed blocks when it is empty
RangeEndsNever(ts) == FALSE

\* "for r := range tasks" ends when the closed channel is empty
RangeEnds(ts) == ts = <<>>

\* the end of a worker's step: Record when the step called it (a panic of
\* Record ends the goroutine and the process), the worker's new position
\* and the value the step left in the shared err
Commit(w, rec, recordCalled, newShared) ==
    LET rr == RecordResult(errChan, waitTime, "err") IN
    IF recordCalled /\ rr.outcome = "panic"
    THEN /\ wk' = [wk EXCEPT ![w].pc = "panicked"]
         /\ UNCHANGED <<errChan, sharedErr>>
    ELSE /\ wk' = [wk EXCEPT ![w] = rec]
         /\ errChan' = IF recordCalled THEN rr.errChan ELSE errChan
         /\ sharedErr' = newShared

ebRest == <<waitTime, done, leakPc, deflatePc, recPc, recSleep, lastRecord,
            nRecords, obs, leaks>>

\* main up to "go repoWorker": the throttler is inflated, startID is read,
\* the writer has opened (and created) the file
InitFetcher ==
    /\ waitTime = 1
    /\ errChan = MakeChan(1)
    /\ done = MakeChan(1)
    /\ leakPc = "select"
    /\ deflatePc = "idle"
    /\ recPc = <<>>
    /\ recSleep = <<>>
    /\ lastRecord = NoRecord
    /\ nRecords = 0
    /\ obs = <<>>
    /\ leaks = 0
    /\ CallIdle
    /\ ClassifierIdle
    /\ AuxIdle
    /\ cfg \in [TarRepos : BOOLEAN, MaxFetcherWorkers : 1..MaxWorkers]
    /\ \E f \in InitialFiles :
          /\ startID = ReadStartID(f)
          /\ file = f.bytes
    /\ supPc = "enumerate"
    /\ cycle = 1
    /\ tasks = <<>>
    /\ dequeued = <<>>
    /\ sharedErr = "nil"
    /\ wk = [w \in Workers |-> NoWorker]
    /\ fileCycle = 0

\* repoWorker: getAllRepos, startID = 0, the tasks channel filled and
\* closed, the workers started
StartCycle ==
    /\ supPc = "enumerate"
    /\ tasks' = getAllRepos(startID)
    /\ dequeued' = <<>>
    /\ startID' = 0
    /\ sharedErr' = "nil"
    /\ wk' = [w \in Workers |-> IF w <= cfg.MaxFetcherWorkers
                                THEN IdleWorker ELSE NoWorker]
    /\ supPc' = "wait"
    /\ UNCHANGED <<cfg, file, cycle, fileCycle>>
    /\ UNCHANGED <<ebVars, callVars, clsVars, auxVars>>

\* repoWorker: getAllRepos fails, fatal(err)
EnumerateFail ==
    /\ supPc = "enumerate"
    /\ supPc' = "fatal"
    /\ UNCHANGED <<cfg, startID, file, cycle, tasks, dequeued, sharedErr, wk, fileCycle>>
    /\ UNCHANGED <<ebVars, callVars, clsVars, auxVars>>

\* repoWorker: wg.Wait() returns
CycleDone ==
    /\ supPc = "wait"
    /\ WgWait
    /\ supPc' = "sleep"
    /\ UNCHANGED <<cfg, startID, file, cycle, tasks, dequeued, sharedErr, wk, fileCycle>>
    /\ UNCHANGED <<ebVars, callVars, clsVars, auxVars>>

\* repoWorker: <-time.After(fetchInterval), the loop starts over
NextCycle ==
    /\ supPc = "sleep"
    /\ cycle < MaxCycles
    /\ cycle' = cycle + 1
    /\ supPc' = "enumerate"
    /\ UNCHANGED <<cfg, startID, file, tasks, dequeued, sharedErr, wk,
                   fileCycle>>
    /\ UNCHANGED <<ebVars, callVars, clsVars, auxVars>>

fetchRest == <<cfg, startID, file, supPc, cycle, fileCycle>>

\* worker: range tasks ends on the closed, empty channel; wg.Done()
WorkerExit(w) ==
    /\ ~Crashed
    /\ wk[w].pc = "idle"
    /\ RangeEnds(tasks)
    /\ wk' = [wk EXCEPT ![w].pc = "exited"]
    /\ UNCHANGED <<tasks, dequeued, sharedErr, fetchRest>>
    /\ UNCHANGED <<ebVars, callVars, clsVars, auxVars>>

\* worker: takes a task; with cfg.TarRepos, ioutil.TempDir assigns the
\* shared err
Dequeue(w) ==
    /\ ~Crashed
    /\ wk[w].pc = "idle"
    /\ tasks # <<>>
    /\ tasks' = TasksAfterRecv(tasks)
    /\ dequeued' = Append(dequeued, Head(tasks))
    /\ \E ok \in BOOLEAN :
          LET rec == [IdleWorker EXCEPT !.id = Head(tasks), !.cyc = cycle] IN
          IF cfg.TarRepos
          THEN /\ wk' = [wk EXCEPT ![w] =
                           [rec EXCEPT !.pc = "chkTmp", !.ran = {"tmpdir"},
                                 !.failedStep = IF ok THEN "none" ELSE "tmpdir"]]
               /\ sharedErr' = ErrOf(ok)
          ELSE /\ wk' = [wk EXCEPT ![w] = [rec EXCEPT !.pc = "fetch"]]
               /\ sharedErr' = sharedErr
    /\ UNCHANGED fetchRest
    /\ UNCHANGED <<ebVars, callVars, clsVars, auxVars>>

\* worker: "if err != nil" after TempDir reads the shared err: Record and
\* return err (Cleanup runs), or the removal of the scratch directory is
\* deferred and the task goes on
ChkTmp(w) ==
    /\ ~Crashed
    /\ wk[w].pc = "chkTmp"
    /\ \E ok \in BOOLEAN :
          IF sharedErr # "nil"
          THEN Commit(w, Return([wk[w] EXCEPT !.ret = "err"], ok), TRUE,
                      ErrOf(ok))
          ELSE Commit(w, [wk[w] EXCEPT !.pc = "fetch", !.tmp = TRUE], FALSE,
                      sharedErr)
    /\ UNCHANGED <<tasks, dequeued, fetchRest, ebRest>>
    /\ UNCHANGED <<callVars, clsVars, auxVars>>

\* worker: the archive is extracted if there is one (a failure is logged
\* and the task goes on), then the tree is cloned or updated
Fetch(w) ==
    /\ ~Crashed
    /\ wk[w].pc = "fetch"
    /\ \E ex \in ExtractOutcomes, op \in FetchOutcomes, ok \in BOOLEAN :
          LET rec == [wk[w] EXCEPT
                        !.ran = @ \cup {"extract", "fetch"},
                        !.failedStep = IF ex = "extractFailed"
                                       THEN "extract" ELSE @]
          IN
          IF FetchReturns(op) = "nil"
          THEN Commit(w, AfterFetch([rec EXCEPT !.fetched = op \in {"cloneOK", "updateOK"}], ok),
                      FALSE, ErrOf(ok))
          ELSE IF op = "updateOtherErr"
          THEN Commit(w, [rec EXCEPT !.pc = "reclone", !.failedStep = "update"],
                      TRUE, sharedErr)
          ELSE Commit(w, Return([rec EXCEPT !.ret = "err",
                                   !.failedStep = IF op = "cloneErr"
                                                  THEN "clone" ELSE "update"],
                                ok),
                      TRUE, ErrOf(ok))
    /\ UNCHANGED <<tasks, dequeued, fetchRest, ebRest>>
    /\ UNCHANGED <<callVars, clsVars, auxVars>>

\* worker, in update after an error that is not ErrNetwork: the tree is
\* removed (a failure is recorded and the update's error returned), then
\* cloned
Reclone(w) ==
    /\ ~Crashed
    /\ wk[w].pc = "reclone"
    /\ \E rm \in BOOLEAN, cl \in BOOLEAN, ok \in BOOLEAN :
          IF ~rm
          THEN Commit(w, Return([wk[w] EXCEPT !.ret = "err"], ok), TRUE,
                      ErrOf(ok))
          ELSE IF ~cl
          THEN Commit(w, Return([wk[w] EXCEPT !.ret = "err",
                                              !.failedStep = "clone"], ok),
                      TRUE, ErrOf(ok))
          ELSE Commit(w, AfterFetch([wk[w] EXCEPT !.fetched = TRUE], ok),
                      FALSE, ErrOf(ok))
    /\ UNCHANGED <<tasks, dequeued, fetchRest, ebRest>>
    /\ UNCHANGED <<callVars, clsVars, auxVars>>

\* worker: "if err != nil" after tar.Create reads the shared err and
\* records it; the closure returns nil either way
ChkTar(w) ==
    /\ ~Crashed
    /\ wk[w].pc = "chkTar"
    /\ \E ok \in BOOLEAN :
          Commit(w, Return(wk[w], ok), sharedErr # "nil", ErrOf(ok))
    /\ UNCHANGED <<tasks, dequeued, fetchRest, ebRest>>
    /\ UNCHANGED <<callVars, clsVars, auxVars>>

\* worker: the deferred removal of the scratch directory reads the shared
\* err and records it; Cleanup runs next
ChkRm(w) ==
    /\ ~Crashed
    /\ wk[w].pc = "chkRm"
    /\ \E ok \in BOOLEAN :
          Commit(w, RunDeferred(wk[w], "cleanup", ok), sharedErr # "nil",
                 ErrOf(ok))
    /\ UNCHANGED <<tasks, dequeued, fetchRest, ebRest>>
    /\ UNCHANGED <<callVars, clsVars, auxVars>>

\* worker: the deferred Cleanup reads the shared err and records it; the
\* closure is over and its result decides on the send
ChkCl(w) ==
    /\ ~Crashed
    /\ wk[w].pc = "chkCl"
    /\ Commit(w, IF Emits(wk[w].ret) THEN [wk[w] EXCEPT !.pc = "emit"]
                 ELSE IdleWorker,
              sharedErr # "nil", sharedErr)
    /\ UNCHANGED <<tasks, dequeued, fetchRest, ebRest>>
    /\ UNCHANGED <<callVars, clsVars, auxVars>>

\* idChan <- r.id meets the writer's receive (the channel has no buffer);
\* the writer seeks to 0 and prints the id, or logs that the seek failed
Emit(w) ==
    /\ ~Crashed
    /\ wk[w].pc = "emit"
    /\ \E seekOK \in BOOLEAN :
          /\ file' = IF seekOK THEN WriteAt0(file, Format020(wk[w].id))
                     ELSE file
          /\ fileCycle' = IF seekOK THEN cycle ELSE fileCycle
    /\ wk' = [wk EXCEPT ![w] = IdleWorker]
    /\ UNCHANGED <<cfg, startID, supPc, cycle, tasks, dequeued, sharedErr>>
    /\ UNCHANGED <<ebVars, callVars, clsVars, auxVars>>

NextFetcher ==
    \/ StartCycle
    \/ EnumerateFail
    \/ CycleDone
    \/ NextCycle
    \/ \E w \in Workers : WorkerExit(w)
    \/ \E w \in Workers : Dequeue(w)
    \/ \E w \in Workers : ChkTmp(w)
    \/ \E w \in Workers : Fetch(w)
    \/ \E w \in Workers : Reclone(w)
    \/ \E w \in Workers : ChkTar(w)
    \/ \E w \in Workers : ChkRm(w)
    \/ \E w \in Workers : ChkCl(w)
    \/ \E w \in Workers : Emit(w)
    \/ LeakToken
    \/ LeakWake

SpecFetcher == InitFetcher /\ [][NextFetcher]_vars

(***************************************************************************)
(* Properties of the fetcher                                               *)
(***************************************************************************)

\* a worker blocked in, or about to run, idChan <- r.id
Emitting(w) == wk[w].pc = "emit"

\* the writer has just consumed the id of worker w and has written the file
Wrote(w) == wk[w].pc = "emit" /\ wk'[w].pc = "idle" /\ fileCycle' = cycle

FileValue(f) == ParseUint(f).value

Parseable(f) == ParseUint(f).ok

C3_AsStated ==
    [][(file' # file /\ cfg.MaxFetcherWorkers = 1
        /\ Parseable(file) /\ Parseable(file'))
       => FileValue(file') >= FileValue(file)]_vars

\* C3, amended: a write lowers the value of last_fetched_id only when it is
\* the first write of a fetch cycle other than the first (every later
\* cycle starts over from id 0), or when it follows a write of the same
\* cycle and max_fetcher_workers > 1.
C3_DecreasesOnlyAtRestartOrRace ==
    [][(file' # file /\ Parseable(file) /\ Parseable(file')
        /\ FileValue(file') < FileValue(file))
       => IF fileCycle' = fileCycle
          THEN cfg.MaxFetcherWorkers > 1
          ELSE fileCycle' > 1 /\ fileCycle' > fileCycle]_vars

\* in the second cycle the only worker sends an id below the value the
\* first cycle left in the file
C3_Witness ==
    /\ cfg.MaxFetcherWorkers = 1
    /\ cycle = 2
    /\ fileCycle = 1
    /\ Parseable(file)
    /\ Emitting(1)
    /\ wk[1].id < FileValue(file)

\* the ids of a sequence, and whether they strictly ascend
IdsOf(s) == {s[i] : i \in 1..Len(s)}

IsAscending(s) == \A i \in 1..(Len(s) - 1) : s[i] < s[i + 1]

\* the resume id a progress file stands for
ResumeOf(f) == IF Parseable(f) THEN FileValue(f) ELSE 0

ResumeBytes == {"0", "1", "9", "x", "\n"}

\* files of 20 bytes and more: a padded id, a padded id and a newline, 21
\* digits of a small number, and two numbers above 1<<64 - 1
LongFiles ==
    {Format020(7),
     Format020(1) \o <<"\n">>,
     <<"0">> \o Format020(12),
     [i \in 1..20 |-> "9"],
     [MaxUint64Digits EXCEPT ![20] = "6"]}

ResumeFiles ==
    {[exists |-> FALSE, bytes |-> <<>>]}
    \cup {[exists |-> TRUE, bytes |-> b] :
            b \in LongFiles \cup UNION {[1..n -> ResumeBytes] : n \in 0..MaxFileLen}}

InitResume ==
    /\ rsPc = "read"
    /\ lastFetchedIDFile \in ResumeFiles
    /\ rsStartID = 0
    /\ ErrBagIdle
    /\ CallIdle
    /\ ClassifierIdle
    /\ FetcherIdle
    /\ CrawlIdle
    /\ UpsertIdle
    /\ LinkIdle
    /\ MoreIdle

\* main: ioutil.ReadFile, strconv.ParseUint, startID
ReadResume ==
    /\ rsPc = "read"
    /\ rsStartID' = ReadStartID(lastFetchedIDFile)
    /\ rsPc' = "done"
    /\ UNCHANGED lastFetchedIDFile
    /\ UNCHANGED <<baseVars, crawlVars, upsertVars, linkVars, moreVars>>

NextResume == ReadResume

SpecResume == InitResume /\ [][NextResume]_vars

RECURSIVE PosValue(_)
\* the number a text of digits denotes, by the place of each digit
PosValue(s) ==
    IF s = <<>> THEN 0
    ELSE DigitValue(s[Len(s)]) + 10 * PosValue(SubSeq(s, 1, Len(s) - 1))

IsUnsigned64Decimal(s) ==
    /\ s # <<>>
    /\ \A i \in 1..Len(s) : IsDigit(s[i])
    /\ ~OutOfRange(s)

\* C17: at start-up the resume id is 0 when last_fetched_id is absent,
\* empty or not an unsigned 64-bit decimal, and is the decimal value the
\* file holds otherwise.
C17_ResumeIdFromFile ==
    rsPc = "done" =>
        rsStartID =
            IF \/ ~lastFetchedIDFile.exists
               \/ lastFetchedIDFile.bytes = <<>>
               \/ ~IsUnsigned64Decimal(lastFetchedIDFile.bytes)
            THEN 0
            ELSE PosValue(lastFetchedIDFile.bytes)

\* a file of 20 digits above 1<<64 - 1 has been read and the resume id is 0
C17_Witness ==
    /\ rsPc = "done"
    /\ lastFetchedIDFile.exists
    /\ Len(lastFetchedIDFile.bytes) = 20
    /\ \A i \in 1..20 : IsDigit(lastFetchedIDFile.bytes[i])
    /\ OutOfRange(lastFetchedIDFile.bytes)
    /\ rsStartID = 0

\* a worker that holds a task
Busy(w) == wk[w].pc \notin {"none", "idle", "exited", "panicked"}

\* C18: all the workers of a fetch cycle have returned before the next
\* cycle's enumeration is made and before any of its workers starts; a
\* task that is being processed belongs to the current cycle.
C18_CyclesDoNotOverlap ==
    /\ supPc \in {"enumerate", "sleep"} =>
          \A w \in Workers : wk[w].pc \in {"none", "exited"}
    /\ \A w \in Workers : Busy(w) => supPc = "wait" /\ wk[w].cyc = cycle

\* a worker of the second cycle processes a task
C18_Witness ==
    /\ cycle = 2
    /\ \E w \in Workers : Busy(w) /\ wk[w].cyc = 2

NoDuplicates(s) == \A i, j \in 1..Len(s) : s[i] = s[j] => i = j

\* C19: in a fetch cycle every row of the cycle's enumeration is received
\* from the task channel exactly once: the rows received and the rows left
\* are together the enumeration (the ids from some id on, each once, in
\* ascending order; all the ids after the first cycle), nothing is left
\* when the workers have returned, and two workers never hold the same row
\* (hence never the same clone_path, which is unique in the table).
C19_EachRowDequeuedOnce ==
    supPc \in {"wait", "sleep"} =>
        /\ NoDuplicates(dequeued \o tasks)
        /\ IsAscending(dequeued \o tasks)
        /\ \E k \in 0..(NumRepos + 1) :
              /\ IdsOf(dequeued \o tasks) = {i \in 1..NumRepos : i >= k}
              /\ cycle > 1 => k <= 1
        /\ supPc = "sleep" => tasks = <<>>
        /\ \A w \in Workers : Busy(w) => wk[w].id \in IdsOf(dequeued)
        /\ \A v, w \in Workers :
              (Busy(v) /\ Busy(w) /\ v # w) => wk[v].id # wk[w].id

\* two workers hold the two rows of the cycle, one each
C19_Witness ==
    /\ supPc = "wait"
    /\ dequeued = <<1, 2>>
    /\ Busy(1) /\ Busy(2)
    /\ {wk[1].id, wk[2].id} = {1, 2}

\* a step of a worker goroutine (the send on idChan with the writer's
\* receive included)
WorkerStep ==
    \E w \in Workers :
        \/ WorkerExit(w) \/ Dequeue(w) \/ ChkTmp(w) \/ Fetch(w) \/ Reclone(w)
        \/ ChkTar(w) \/ ChkRm(w) \/ ChkCl(w) \/ Emit(w)

\* the fetcher with goroutines that keep running: a worker that can take a
\* step takes one (every call of a task returns, the writer receives), and
\* wg.Wait() returns once every worker is done
SpecFetcherLive ==
    /\ InitFetcher
    /\ [][NextFetcher]_vars
    /\ WF_vars(WorkerStep)
    /\ WF_vars(CycleDone)

\* C20: in every fetch cycle the task channel is filled and closed before
\* a worker receives from it and nothing is sent on it afterwards (while
\* the workers run it only loses its first task), and, every step of a task
\* terminating and the progress writer receiving, every worker exits and
\* the supervisor reaches the sleep between two cycles.
C20_WorkersDrainAndExit ==
    /\ [][(supPc = "enumerate" /\ supPc' = "wait") =>
            /\ dequeued' = <<>>
            /\ \A w \in 1..cfg.MaxFetcherWorkers : wk'[w].pc = "idle"]_vars
    /\ [][supPc = "wait" => (tasks' = tasks \/ tasks' = Tail(tasks))]_vars
    /\ (supPc = "wait") ~> (supPc = "sleep")

\* the workers of a cycle that had tasks have all exited and the supervisor
\* sleeps
C20_Witness ==
    /\ supPc = "sleep"
    /\ dequeued # <<>>
    /\ tasks = <<>>
    /\ \A w \in 1..cfg.MaxFetcherWorkers : wk[w].pc = "exited"

(***************************************************************************)
(* gitHubCrawler.Crawl: call around fetchRepositories (listing mode) or,  *)
(* per language, around fetchTopRepositories (search mode).  The provider *)
(* has NumPages pages of PageSize repositories; a page request is         *)
(* answered with the page, with the rate-limit refusal or with another    *)
(* error.  What happens to one repository of a page (skipped by a filter, *)
(* not fetched, not saved, or saved) is the choice of the environment.    *)
(***************************************************************************)
CrawlConfigs ==
    [UseSearchAPI : BOOLEAN, Limit : 0..MaxLimit, NumLanguages : 1..MaxLanguages,
     Fork : BOOLEAN]

\* a crawler that never looks at the Fork field
SkipsNoFork(isFork, keepFork) == FALSE

\* "skip? fork repos": if *repo.Fork && !keepFork { continue }
SkipsFork(isFork, keepFork) == isFork /\ ~keepFork

hasLimit == crCfg.Limit > 0

\* the ids from a to b in ascending order
RECURSIVE IdRange(_, _)
IdRange(a, b) == IF a > b THEN <<>> ELSE <<a>> \o IdRange(a + 1, b)

\* Repositories.ListAll: the first PageSize repositories with id > since
ListAll(since) ==
    LET last == IF since + PageSize < NumPages * PageSize
                THEN since + PageSize ELSE NumPages * PageSize
    IN IdRange(since + 1, last)

\* Search.Repositories: page opt.Page (0 and 1 are the first page)
SearchRepositories(page) ==
    LET p == IF page = 0 THEN 1 ELSE page
    IN [Repositories |-> IdRange((p - 1) * PageSize + 1, p * PageSize),
        NextPage |-> IF p < NumPages THEN p + 1 ELSE 0]

InitCrawl ==
    /\ crPc = "crawl"
    /\ crCfg \in CrawlConfigs
    /\ crForks \in SUBSET (1..(NumPages * PageSize))
    /\ crForkSkips = {}
    /\ crLang = 0
    /\ crN = 0
    /\ crSinceID = 0
    /\ crOptPage = 0
    /\ crNextPage = 0
    /\ crRepos = <<>>
    /\ crLimited = 0
    /\ crUpserted = [l \in 0..MaxLanguages |-> {}]
    /\ crLate = [l \in 0..MaxLanguages |-> 0]
    /\ ErrBagIdle
    /\ CallIdle
    /\ ClassifierIdle
    /\ FetcherIdle
    /\ ResumeIdle
    /\ UpsertIdle
    /\ LinkIdle
    /\ MoreIdle

crawlRest == <<baseVars, resumeVars, upsertVars, linkVars, moreVars>>

\* the first lines of fetchRepositories and fetchTopRepositories
EnterFct ==
    /\ crN' = crCfg.Limit
    /\ crSinceID' = 0
    /\ crOptPage' = 0
    /\ crNextPage' = 0
    /\ crRepos' = <<>>
    /\ crPc' = "list"

\* the fetch function returned something else than errTooManyCall
LeaveFct ==
    /\ crPc' = IF crCfg.UseSearchAPI THEN "crawl" ELSE "done"
    /\ crRepos' = <<>>

\* Crawl: the next language, or the one listing
CrawlCall ==
    /\ crPc = "crawl"
    /\ IF crCfg.UseSearchAPI /\ crLang = crCfg.NumLanguages
       THEN /\ crPc' = "done"
            /\ UNCHANGED <<crLang, crN, crSinceID, crOptPage, crNextPage, crRepos>>
       ELSE /\ crLang' = IF crCfg.UseSearchAPI THEN crLang + 1 ELSE 0
            /\ EnterFct
    /\ UNCHANGED <<crCfg, crLimited, crUpserted, crLate, crForks, crForkSkips>>
    /\ UNCHANGED crawlRest

\* the page request of the loop and what follows it up to the range
ListPage ==
    /\ crPc = "list"
    /\ crLate' = [crLate EXCEPT ![crLang] =
                    IF hasLimit /\ Cardinality(crUpserted[crLang]) >= crCfg.Limit
                    THEN 1 ELSE @]
    /\ \/ \* the request is refused: errTooManyCall
          /\ crLimited < MaxRetries
          /\ crLimited' = crLimited + 1
          /\ crPc' = "sleep"
          /\ UNCHANGED <<crSinceID, crOptPage, crNextPage, crRepos>>
       \/ \* the request fails with another error
          /\ LeaveFct
          /\ UNCHANGED <<crLimited, crSinceID, crOptPage, crNextPage>>
       \/ \* the request is answered
          /\ IF crCfg.UseSearchAPI
             THEN /\ crRepos' = SearchRepositories(crOptPage).Repositories
                  /\ crNextPage' = SearchRepositories(crOptPage).NextPage
                  /\ crPc' = "repos"
             ELSE /\ crNextPage' = crNextPage
                  /\ IF ListAll(crSinceID) = <<>>
                     THEN LeaveFct
                     ELSE /\ crRepos' = ListAll(crSinceID)
                          /\ crPc' = "repos"
          /\ UNCHANGED <<crLimited, crSinceID, crOptPage>>
    /\ UNCHANGED <<crCfg, crLang, crN, crUpserted, crForks, crForkSkips>>
    /\ UNCHANGED crawlRest

\* one iteration of the range over the page
Repo ==
    /\ crPc = "repos"
    /\ crRepos # <<>>
    /\ crSinceID' = IF crCfg.UseSearchAPI THEN crSinceID ELSE Head(crRepos)
    /\ IF crN = 0 /\ hasLimit
       THEN \* break ResultsLoop
            /\ LeaveFct
            /\ UNCHANGED <<crN, crUpserted, crForkSkips>>
       ELSE /\ crRepos' = Tail(crRepos)
            /\ crPc' = crPc
            /\ \/ \* continue: a nil field, verifyRepo failed
                  UNCHANGED <<crN, crUpserted, crForkSkips>>
               \/ \* the Fork field is there
                  IF SkipsFork(Head(crRepos) \in crForks, crCfg.Fork)
                  THEN \* continue: a fork that is not wanted
                       /\ crForkSkips' = crForkSkips \cup {Head(crRepos)}
                       /\ UNCHANGED <<crN, crUpserted>>
                  ELSE \/ \* continue: language not wanted, not fetched,
                          \* or not saved
                          UNCHANGED <<crN, crUpserted, crForkSkips>>
                       \/ \* insertOrUpdateRepo returned true
                          /\ crN' = crN - 1
                          /\ crUpserted' = [crUpserted EXCEPT ![crLang] =
                                               @ \cup {Head(crRepos)}]
                          /\ UNCHANGED crForkSkips
    /\ UNCHANGED <<crCfg, crLang, crOptPage, crNextPage, crLimited, crLate,
                   crForks>>
    /\ UNCHANGED crawlRest

\* the end of the range: leave the loop or go for the next page
PageEnd ==
    /\ crPc = "repos"
    /\ crRepos = <<>>
    /\ IF crCfg.UseSearchAPI
       THEN IF crNextPage = 0 \/ (crN <= 0 /\ hasLimit)
            THEN LeaveFct /\ UNCHANGED crOptPage
            ELSE crOptPage' = crNextPage /\ crPc' = "list" /\ UNCHANGED crRepos
       ELSE IF crN <= 0 /\ hasLimit
            THEN LeaveFct /\ UNCHANGED crOptPage
            ELSE crPc' = "list" /\ UNCHANGED <<crRepos, crOptPage>>
    /\ UNCHANGED <<crCfg, crLang, crN, crSinceID, crNextPage, crLimited,
                   crUpserted, crLate, crForks, crForkSkips>>
    /\ UNCHANGED crawlRest

\* call: the sleep up to the reset instant, then fct again
CrawlRetry ==
    /\ crPc = "sleep"
    /\ EnterFct
    /\ UNCHANGED <<crCfg, crLang, crLimited, crUpserted, crLate, crForks,
                   crForkSkips>>
    /\ UNCHANGED crawlRest

NextCrawl ==
    \/ CrawlCall
    \/ ListPage
    \/ Repo
    \/ PageEnd
    \/ CrawlRetry

SpecCrawl == InitCrawl /\ [][NextCrawl]_vars

\* C11: in listing mode with a limit L > 0, one Crawl upserts at most L
\* repositories whatever the provider answers, and requests no page once
\* L upserts have succeeded.
C11_AsStated ==
    (~crCfg.UseSearchAPI /\ hasLimit) =>
        /\ Cardinality(crUpserted[0]) <= crCfg.Limit
        /\ crLate[0] = 0

\* C12: in search mode with a limit L > 0, one Crawl upserts at most L
\* repositories per language, each language starting with the full budget
\* and its pages being followed until NextPage is 0 or the budget is spent.
C12_AsStated ==
    (crCfg.UseSearchAPI /\ hasLimit) =>
        \A l \in 1..crCfg.NumLanguages :
            /\ Cardinality(crUpserted[l]) <= crCfg.Limit
            /\ crLate[l] = 0

(***************************************************************************)
(* insertOrUpdateRepo on the tables repositories and gh_repositories.  A  *)
(* row of repositories has an id, the clone path (one per github id) and  *)
(* the other fields of the record; a row of gh_repositories has an id,    *)
(* the github id and the id of its repositories row.  Every statement is  *)
(* its own transaction.  upFault says, per github id, which step of the   *)
(* upsert the environment fails (a database error, or the provider not    *)
(* handing out the owner); it changes between calls only through          *)
(* FaultChange.                                                            *)
(***************************************************************************)
GhRepoIDs == 1..NumGhRepos

\* the fields of a record other than its ID (name, clone URL, ...)
RepoNames == {"a", "b"}

Faults == {"none", "lookup", "write", "owner", "ghLookup", "ghWrite", "org"}

\* clonePath of the repository with github id r
clonePath(r) == r

NoHist == [calls |-> 0, Name |-> "a", same |-> TRUE, first |-> <<0, 0>>,
           insertLater |-> FALSE]

\* getRepoID: repository_id of the gh_repositories row, 0 without a row
getRepoID(repo) ==
    IF \E g \in gh_repositories : g.github_id = repo.ID
    THEN (CHOOSE g \in gh_repositories : g.github_id = repo.ID).repository_id
    ELSE 0

\* getGhRepoID: id of the gh_repositories row, 0 without a row
getGhRepoID(repo) ==
    IF \E g \in gh_repositories : g.github_id = repo.ID
    THEN (CHOOSE g \in gh_repositories : g.github_id = repo.ID).id
    ELSE 0

\* the numbers of rows repository r has in the two tables
RowCounts(r) ==
    <<Cardinality({x \in repositories : x.clone_path = clonePath(r)}),
      Cardinality({g \in gh_repositories : g.github_id = r})>>

CallsMade(h) ==
    LET RECURSIVE Sum(_)
        Sum(r) == IF r = 0 THEN 0 ELSE h[r].calls + Sum(r - 1)
    IN Sum(NumGhRepos)

InitUpsert ==
    /\ upPc = "idle"
    /\ upRepo = [ID |-> 0, Name |-> "a"]
    /\ upID = 0
    /\ upRepoID = 0
    /\ upRet = FALSE
    /\ repositories = {}
    /\ gh_repositories = {}
    /\ upNextID = 1
    /\ upFault \in [GhRepoIDs -> Faults]
    /\ upBefore = {}
    /\ upHist = [r \in GhRepoIDs |-> NoHist]
    /\ ErrBagIdle
    /\ CallIdle
    /\ ClassifierIdle
    /\ FetcherIdle
    /\ ResumeIdle
    /\ CrawlIdle
    /\ LinkIdle
    /\ MoreIdle

upsertRest == <<baseVars, resumeVars, crawlVars, linkVars, moreVars>>

\* insertOrUpdateRepo returns b (no statement runs in the returning step)
UpsertReturn(b) ==
    /\ upRet' = b
    /\ upPc' = "returned"
    /\ upHist' = [upHist EXCEPT ![upRepo.ID] =
                    [@ EXCEPT !.calls = @ + 1,
                              !.first = IF upHist[upRepo.ID].calls = 0
                                        THEN RowCounts(upRepo.ID) ELSE @]]

\* a caller hands a repository record to insertOrUpdateRepo
UpsertCall ==
    /\ upPc \in {"idle", "returned"}
    /\ CallsMade(upHist) < MaxUpserts
    /\ \E r \in GhRepoIDs, d \in RepoNames :
          /\ upRepo' = [ID |-> r, Name |-> d]
          /\ upHist' = [upHist EXCEPT ![r] =
                          IF @.calls = 0 THEN [@ EXCEPT !.Name = d]
                          ELSE [@ EXCEPT !.same = @ /\ d = upHist[r].Name]]
    /\ upBefore' = repositories
    /\ upPc' = "lookup"
    /\ UNCHANGED <<upID, upRepoID, upRet, repositories, gh_repositories,
                   upNextID, upFault>>
    /\ UNCHANGED upsertRest

\* id := g.getRepoID(repo)
UpsertLookup ==
    /\ upPc = "lookup"
    /\ IF upFault[upRepo.ID] = "lookup"
       THEN /\ upID' = -1
            /\ UpsertReturn(FALSE)
       ELSE /\ upID' = getRepoID(upRepo)
            /\ upPc' = "write"
            /\ UNCHANGED <<upRet, upHist>>
    /\ UNCHANGED <<upRepo, upRepoID, repositories, gh_repositories, upNextID,
                   upFault, upBefore>>
    /\ UNCHANGED upsertRest

\* the UPDATE or INSERT on repositories ... RETURNING id
UpsertWrite ==
    /\ upPc = "write"
    /\ LET row(id) == [id |-> id, clone_path |-> clonePath(upRepo.ID),
                       Name |-> upRepo.Name]
           old == {x \in repositories : x.id = upID}
           taken(id) == \E x \in repositories :
                           x.clone_path = clonePath(upRepo.ID) /\ x.id # id
           \* an INSERT by a later call although the repository has a row
           noteInsert == [upHist EXCEPT ![upRepo.ID] =
                            [@ EXCEPT !.insertLater =
                                @ \/ (upHist[upRepo.ID].calls > 0 /\ taken(0))]]
       IN IF upID > 0
          THEN IF upFault[upRepo.ID] = "write" \/ old = {} \/ taken(upID)
               THEN /\ UpsertReturn(FALSE)
                    /\ UNCHANGED <<repositories, upRepoID, upNextID>>
               ELSE /\ repositories' = (repositories \ old) \cup {row(upID)}
                    /\ upRepoID' = upID
                    /\ upPc' = "owner"
                    /\ UNCHANGED <<upRet, upHist, upNextID>>
          ELSE IF upFault[upRepo.ID] = "write" \/ taken(0)
               THEN /\ upRet' = FALSE
                    /\ upPc' = "returned"
                    /\ upHist' = [noteInsert EXCEPT ![upRepo.ID] =
                                    [@ EXCEPT !.calls = @ + 1,
                                              !.first = IF upHist[upRepo.ID].calls = 0
                                                        THEN RowCounts(upRepo.ID) ELSE @]]
                    /\ UNCHANGED <<repositories, upRepoID, upNextID>>
               ELSE /\ repositories' = repositories \cup {row(upNextID)}
                    /\ upRepoID' = upNextID
                    /\ upNextID' = upNextID + 1
                    /\ upPc' = "owner"
                    /\ upHist' = noteInsert
                    /\ UNCHANGED upRet
    /\ UNCHANGED <<upRepo, upID, gh_repositories, upFault, upBefore>>
    /\ UNCHANGED upsertRest

\* insertOrUpdateUser or insertOrUpdateGhOrg for the owner
UpsertOwner ==
    /\ upPc = "owner"
    /\ IF upFault[upRepo.ID] = "owner"
       THEN UpsertReturn(FALSE)
       ELSE upPc' = "ghLookup" /\ UNCHANGED <<upRet, upHist>>
    /\ UNCHANGED <<upRepo, upID, upRepoID, repositories, gh_repositories,
                   upNextID, upFault, upBefore>>
    /\ UNCHANGED upsertRest

\* insertOrUpdateGhRepo: id := g.getGhRepoID(repo)
UpsertGhLookup ==
    /\ upPc = "ghLookup"
    /\ IF upFault[upRepo.ID] = "ghLookup"
       THEN /\ upID' = -1
            /\ UpsertReturn(FALSE)
       ELSE /\ upID' = getGhRepoID(upRepo)
            /\ upPc' = "ghWrite"
            /\ UNCHANGED <<upRet, upHist>>
    /\ UNCHANGED <<upRepo, upRepoID, repositories, gh_repositories, upNextID,
                   upFault, upBefore>>
    /\ UNCHANGED upsertRest

\* insertOrUpdateGhRepo: the UPDATE or INSERT on gh_repositories
UpsertGhWrite ==
    /\ upPc = "ghWrite"
    /\ LET row(id) == [id |-> id, github_id |-> upRepo.ID,
                       repository_id |-> upRepoID]
           old == {g \in gh_repositories : g.id = upID}
       IN IF upFault[upRepo.ID] = "ghWrite"
          THEN /\ UpsertReturn(FALSE)
               /\ UNCHANGED <<gh_repositories, upNextID>>
          ELSE /\ IF upID > 0
                  THEN /\ gh_repositories' = (gh_repositories \ old) \cup
                                             {row(upID)}
                       /\ UNCHANGED upNextID
                  ELSE /\ gh_repositories' = gh_repositories \cup {row(upNextID)}
                       /\ upNextID' = upNextID + 1
               /\ upPc' = "org"
               /\ UNCHANGED <<upRet, upHist>>
    /\ UNCHANGED <<upRepo, upID, upRepoID, repositories, upFault, upBefore>>
    /\ UNCHANGED upsertRest

\* insertOrUpdateGhRepo: the organization of the repository, then true
UpsertOrg ==
    /\ upPc = "org"
    /\ UpsertReturn(upFault[upRepo.ID] # "org")
    /\ UNCHANGED <<upRepo, upID, upRepoID, repositories, gh_repositories,
                   upNextID, upFault, upBefore>>
    /\ UNCHANGED upsertRest

\* between two calls the environment starts or stops failing a step
FaultChange ==
    /\ upPc = "returned"
    /\ \E r \in GhRepoIDs, f \in Faults :
          /\ f # upFault[r]
          /\ upFault' = [upFault EXCEPT ![r] = f]
          /\ upHist' = [upHist EXCEPT ![r] = [@ EXCEPT !.same = @ /\ upHist[r].calls = 0]]
    /\ UNCHANGED <<upPc, upRepo, upID, upRepoID, upRet, repositories,
                   gh_repositories, upNextID, upBefore>>
    /\ UNCHANGED upsertRest

NextUpsert ==
    \/ UpsertCall
    \/ UpsertLookup
    \/ UpsertWrite
    \/ UpsertOwner
    \/ UpsertGhLookup
    \/ UpsertGhWrite
    \/ UpsertOrg
    \/ FaultChange

SpecUpsert == InitUpsert /\ [][NextUpsert]_vars

\* C13: after N >= 1 upserts of an identical record under identical
\* answers of the environment, the row counts of repositories and
\* gh_repositories are those after the first call, and no later call
\* issued an INSERT for a repository that has a row: it updated the rows
\* found by the github id.
C13_AsStated ==
    \A r \in GhRepoIDs :
        (upPc = "returned" /\ upHist[r].calls >= 2 /\ upHist[r].same) =>
            /\ RowCounts(r) = upHist[r].first
            /\ ~upHist[r].insertLater

\* C14: when insertOrUpdateRepo returns false, the table repositories is
\* exactly as it was before the call.
C14_AsStated ==
    (upPc = "returned" /\ ~upRet) => repositories = upBefore

(***************************************************************************)
(* linkUserToRepo, called by the crawlers crawlingWorker runs each in its *)
(* own goroutine on the one database.  users_repositories has no key: it  *)
(* is a bag of (user_id, repository_id) rows.                             *)
(***************************************************************************)
Crawlers == 1..NumCrawlers

LinkPairs == (1..NumUsers) \X (1..NumGhRepos)

InitLink ==
    /\ lkPc = [c \in Crawlers |-> "idle"]
    /\ lkArg = [c \in Crawlers |-> <<1, 1>>]
    /\ users_repositories = [p \in LinkPairs |-> 0]
    /\ lkCalls = 0
    /\ ErrBagIdle
    /\ CallIdle
    /\ ClassifierIdle
    /\ FetcherIdle
    /\ ResumeIdle
    /\ CrawlIdle
    /\ UpsertIdle
    /\ MoreIdle

linkRest == <<baseVars, resumeVars, crawlVars, upsertVars, moreVars>>

\* SELECT COUNT(*) ... WHERE user_id = $1 AND repository_id = $2
CountLinks(userID, repoID) == users_repositories[<<userID, repoID>>]

\* a crawler calls linkUserToRepo(userID, repoID)
LinkCall(c) ==
    /\ lkPc[c] = "idle"
    /\ lkCalls < MaxLinks
    /\ \E p \in LinkPairs : lkArg' = [lkArg EXCEPT ![c] = p]
    /\ lkPc' = [lkPc EXCEPT ![c] = "check"]
    /\ lkCalls' = lkCalls + 1
    /\ UNCHANGED users_repositories
    /\ UNCHANGED linkRest

\* isUserLinkedToRepo and the test of linkUserToRepo on its result
LinkCheck(c) ==
    /\ lkPc[c] = "check"
    /\ \E scanErr \in BOOLEAN :
          LET linked == IF scanErr THEN FALSE
                        ELSE CountLinks(lkArg[c][1], lkArg[c][2]) > 0
          IN lkPc' = [lkPc EXCEPT ![c] = IF linked THEN "idle" ELSE "insert"]
    /\ UNCHANGED <<lkArg, users_repositories, lkCalls>>
    /\ UNCHANGED linkRest

\* the INSERT INTO users_repositories of linkUserToRepo
LinkInsert(c) ==
    /\ lkPc[c] = "insert"
    /\ \E execErr \in BOOLEAN :
          users_repositories' =
              IF execErr THEN users_repositories
              ELSE [users_repositories EXCEPT ![lkArg[c]] = @ + 1]
    /\ lkPc' = [lkPc EXCEPT ![c] = "idle"]
    /\ UNCHANGED <<lkArg, lkCalls>>
    /\ UNCHANGED linkRest

NextLink ==
    \E c \in Crawlers :
        \/ LinkCall(c)
        \/ LinkCheck(c)
        \/ LinkInsert(c)

SpecLink == InitLink /\ [][NextLink]_vars

\* C15: after any sequence of link operations, concurrent crawlers
\* included, users_repositories holds at most one row per (user id,
\* repository id).
C15_AsStated ==
    \A p \in LinkPairs : users_repositories[p] <= 1

(***************************************************************************)
(* The closure a worker runs on one task, with the disk it works on.  A   *)
(* tree (the clone path, or tmpDest in the scratch directory) is "none",  *)
(* "empty", "old" (there before the task), "partial" (left by a failed    *)
(* call) or "fetched" (cloned or updated by this task); an archive holds  *)
(* the tree it was made from.  Each task has its own clone path, so its   *)
(* disk is chosen when it is received; the scratch directories are shared.*)
(* Every call may fail for a reason of its own (res "err"); tar.Create    *)
(* on a directory that is not there fails with "ENOENT".  Record returns: *)
(* the throttler is not deflated here.                                    *)
(***************************************************************************)
Ev(op, res) == [op |-> op, res |-> res]

\* errBag.Record(err, callback)
Recorded == Ev("Record", "ok")

ResOf(ok) == IF ok THEN "ok" ELSE "err"

\* what Update returns: nil, repo.ErrNetwork, repo.ErrNoSpace, another error
UpdateResults == {"ok", "ErrNetwork", "ErrNoSpace", "err"}

\* an update that deletes and re-clones after every error
SkipsOnNothing(res) == FALSE

\* an update that skips on the storage error too
SkipsOnNetworkOrNoSpace(res) == res \in {"ErrNetwork", "ErrNoSpace"}

\* update: "if err == repo.ErrNetwork { return err }"
SkipsOn(res) == res = "ErrNetwork"

\* an update that clones whatever os.RemoveAll returned
CloneAlways(rmOK) == TRUE

\* update: clone(r) is reached only when os.RemoveAll returned nil
CloneAfterRemove(rmOK) == rmOK

\* os.IsNotExist(err) || isDirEmpty(path)
Missing(tree) == tree \in {"none", "empty"}

\* the archives and trees a task may find at its clone path
InitialDisks ==
    {[arch |-> a, tree |-> t, tmpDest |-> "none", tmpPath |-> 0] :
        a \in {NoArchive} \cup
              {[content |-> "old", big |-> b, bad |-> x] : b, x \in BOOLEAN},
        t \in {"none", "empty", "old"}}

\* the tree r.AbsPath() names
TreeAt(disk, abs) == IF abs = "tmpDest" THEN disk.tmpDest ELSE disk.tree

SetTreeAt(disk, abs, t) ==
    IF abs = "tmpDest" THEN [disk EXCEPT !.tmpDest = t]
    ELSE [disk EXCEPT !.tree = t]

\* ioutil.TempDir: a new directory, its name not that of an existing one
FreshName(used) == CHOOSE n \in 1..(MaxTasks + 1) : n \notin used

\* a closure that leaves what a failed extraction wrote
MessKept(left, rmOK) == left

\* "attempt to remove the eventual mess": what is at the destination of a
\* failed extraction after os.RemoveAll, whose error is dropped
MessLeft(left, rmOK) == IF rmOK THEN "none" ELSE left

\* a closure that registers no removal of the scratch directory
DeferredCleanupOnly == "cleanup"

\* a closure that defers nothing
DeferredNothing == "end"

\* the first deferred call to run when the closure returns
TaskDeferred == IF tkDeferRm THEN "rmtmp" ELSE "cleanup"

\* a closure that does not record a failed archive creation
RecordsOnButTar == {"TempDir", "Clone", "Update", "RemoveAll", "RmTmp",
                    "Cleanup"}

\* the steps that call errBag.Record when they fail
RecordsOn == {"TempDir", "Clone", "Update", "RemoveAll", "Create",
              "CreateInPlace", "RmTmp", "Cleanup"}

\* the log entries of a call: the call and, when it failed, its Record
Call(op, res) ==
    IF res # "ok" /\ op \in RecordsOn THEN <<Ev(op, res), Recorded>>
    ELSE <<Ev(op, res)>>

InitTask ==
    /\ tkPc = "idle"
    /\ tkCfg \in [TarRepos : BOOLEAN]
    /\ tkTasks = MaxTasks
    /\ tkId = 0
    /\ tkDisk = NoDisk
    /\ tkAbsPath = "path"
    /\ tkUseTmpDir = FALSE
    /\ tkDeferRm = FALSE
    /\ tkRet = "nil"
    /\ tkLog = <<>>
    /\ tkInit = NoDisk
    /\ tkScratch = {}
    /\ tkPast = <<>>
    /\ ErrBagIdle
    /\ CallIdle
    /\ ClassifierIdle
    /\ FetcherIdle
    /\ ResumeIdle
    /\ CrawlIdle
    /\ UpsertIdle
    /\ LinkIdle
    /\ ShutIdle
    /\ StartIdle
    /\ FnIdle

taskRest == <<baseVars, resumeVars, crawlVars, upsertVars, linkVars, shutVars,
              startVars, fnVars>>

\* for r := range tasks: the next task, and the closure's first lines
TaskDequeue ==
    /\ tkPc = "idle"
    /\ tkTasks > 0
    /\ tkTasks' = tkTasks - 1
    /\ tkId' = tkId + 1
    /\ \E d \in InitialDisks : tkDisk' = d /\ tkInit' = d
    /\ tkAbsPath' = "path"
    /\ tkUseTmpDir' = FALSE
    /\ tkDeferRm' = FALSE
    /\ tkRet' = "nil"
    /\ tkLog' = <<>>
    /\ tkPc' = IF tkCfg.TarRepos THEN "tmpdir" ELSE "extract"
    /\ UNCHANGED <<tkCfg, tkScratch, tkPast>>
    /\ UNCHANGED taskRest

\* the range over the closed, empty channel ends; wg.Done()
TaskWorkerExit ==
    /\ tkPc = "idle"
    /\ tkTasks = 0
    /\ tkPc' = "exited"
    /\ UNCHANGED <<tkCfg, tkTasks, tkId, tkDisk, tkAbsPath, tkUseTmpDir,
                   tkDeferRm, tkRet, tkLog, tkInit, tkScratch, tkPast>>
    /\ UNCHANGED taskRest

\* ioutil.TempDir(cfg.TmpDir, "repo-"): a directory with a name not in use
TaskTempDir ==
    /\ tkPc = "tmpdir"
    /\ \E ok \in BOOLEAN :
          /\ tkLog' = tkLog \o Call("TempDir", ResOf(ok))
          /\ IF ok
             THEN LET name == FreshName(tkScratch)
                  IN /\ tkDisk' = [tkDisk EXCEPT !.tmpPath = name]
                     /\ tkScratch' = tkScratch \cup {name}
                     /\ tkUseTmpDir' = TRUE
                     /\ tkDeferRm' = TRUE
                     /\ tkRet' = tkRet
                     /\ tkPc' = "extract"
             ELSE /\ tkRet' = "err"
                  /\ tkPc' = "cleanup"
                  /\ UNCHANGED <<tkDisk, tkScratch, tkUseTmpDir, tkDeferRm>>
    /\ UNCHANGED <<tkCfg, tkTasks, tkId, tkAbsPath, tkInit, tkPast>>
    /\ UNCHANGED taskRest

\* os.Stat(archive), tar.Extract into the scratch directory or
\* tar.ExtractInPlace, and after a failure the two removals whose errors
\* are dropped
TaskExtract ==
    /\ tkPc = "extract"
    /\ IF tkDisk.arch.content = "none"
       THEN UNCHANGED <<tkDisk, tkLog>>
       ELSE LET inTmp == tkUseTmpDir /\ ~tkDisk.arch.big
                op == IF inTmp THEN "Extract" ELSE "ExtractInPlace"
                dest == IF inTmp THEN "tmpDest" ELSE "path"
            IN \E ok \in (IF tkDisk.arch.bad THEN {FALSE} ELSE BOOLEAN) :
                  IF ok
                  THEN /\ tkDisk' =
                            LET d == SetTreeAt(tkDisk, dest, tkDisk.arch.content)
                            IN IF inTmp THEN d ELSE [d EXCEPT !.arch = NoArchive]
                       /\ tkLog' = tkLog \o Call(op, "ok")
                  ELSE \E left \in {TreeAt(tkDisk, dest), "partial"},
                          rmA \in BOOLEAN, rmT \in BOOLEAN :
                          /\ tkDisk' =
                               LET d == SetTreeAt(tkDisk, dest,
                                                  MessLeft(left, rmT))
                               IN IF rmA THEN [d EXCEPT !.arch = NoArchive] ELSE d
                          /\ tkLog' = tkLog \o Call(op, "err")
                                        \o Call("RmArchive", ResOf(rmA))
                                        \o Call("RmPartial", ResOf(rmT))
    /\ tkPc' = "fetch"
    /\ UNCHANGED <<tkCfg, tkTasks, tkId, tkAbsPath, tkUseTmpDir, tkDeferRm,
                   tkRet, tkInit, tkScratch, tkPast>>
    /\ UNCHANGED taskRest

\* the closure returns err: the deferred calls run
TaskFail ==
    /\ tkRet' = "err"
    /\ tkPc' = TaskDeferred

\* the tree is fetched: r.SetAbsPath(path), then the archive if cfg.TarRepos
TaskFetched ==
    /\ tkRet' = tkRet
    /\ tkPc' = IF tkCfg.TarRepos THEN "tar" ELSE TaskDeferred

\* the choice of the tree to work on, then clone(r) or the r.Update() of
\* update(r) with its Record
TaskFetch ==
    /\ tkPc = "fetch"
    /\ LET inTmp == tkUseTmpDir /\ ~Missing(tkDisk.tmpDest)
           \* r.AbsPath() during the call
           abs == IF ~tkUseTmpDir THEN "path"
                  ELSE IF inTmp THEN "tmpDest"
                  ELSE IF Missing(tkDisk.tree) THEN "tmpDest" ELSE "path"
           doClone == Missing(TreeAt(tkDisk, abs))
       IN /\ tkUseTmpDir' = inTmp
          /\ IF doClone
             THEN \E ok \in BOOLEAN :
                     /\ tkLog' = tkLog \o Call("Clone", ResOf(ok))
                     /\ tkDisk' = SetTreeAt(tkDisk, abs,
                                            IF ok THEN "fetched" ELSE "partial")
                     /\ tkAbsPath' = "path"
                     /\ IF ok THEN TaskFetched ELSE TaskFail
             ELSE \E res \in UpdateResults :
                     /\ tkLog' = tkLog \o Call("Update", res)
                     /\ tkDisk' = IF res = "ok"
                                  THEN SetTreeAt(tkDisk, abs, "fetched")
                                  ELSE tkDisk
                     /\ IF res = "ok"
                        THEN tkAbsPath' = "path" /\ TaskFetched
                        ELSE IF SkipsOn(res)
                        THEN tkAbsPath' = "path" /\ TaskFail
                        ELSE /\ tkAbsPath' = abs
                             /\ tkPc' = "reclone"
                             /\ tkRet' = tkRet
    /\ UNCHANGED <<tkCfg, tkTasks, tkId, tkDeferRm, tkInit, tkScratch, tkPast>>
    /\ UNCHANGED taskRest

\* update after another error: os.RemoveAll(r.AbsPath()), then clone(r)
TaskReclone ==
    /\ tkPc = "reclone"
    /\ \E rmOK \in BOOLEAN, ok \in BOOLEAN :
          LET removed == IF rmOK THEN SetTreeAt(tkDisk, tkAbsPath, "none")
                         ELSE tkDisk
          IN IF CloneAfterRemove(rmOK)
             THEN /\ tkLog' = tkLog \o Call("RemoveAll", ResOf(rmOK))
                                    \o Call("Clone", ResOf(ok))
                  /\ tkDisk' = SetTreeAt(removed, tkAbsPath,
                                         IF ok THEN "fetched" ELSE "partial")
                  /\ IF ok THEN TaskFetched ELSE TaskFail
             ELSE /\ tkLog' = tkLog \o Call("RemoveAll", ResOf(rmOK))
                  /\ tkDisk' = removed
                  /\ TaskFail
    /\ tkAbsPath' = "path"
    /\ UNCHANGED <<tkCfg, tkTasks, tkId, tkUseTmpDir, tkDeferRm, tkInit,
                   tkScratch, tkPast>>
    /\ UNCHANGED taskRest

\* tar.Create(archive, tmpDest) or tar.CreateInPlace(r.AbsPath()); the
\* closure returns nil
TaskTar ==
    /\ tkPc = "tar"
    /\ IF tkUseTmpDir
       THEN \E ok \in BOOLEAN :
               /\ tkLog' = tkLog \o Call("Create", ResOf(ok))
               /\ tkDisk' = IF ok
                            THEN [tkDisk EXCEPT !.arch =
                                    [content |-> tkDisk.tmpDest, big |-> FALSE,
                                     bad |-> FALSE]]
                            ELSE tkDisk
       ELSE IF tkDisk.tree = "none"
       THEN /\ tkLog' = tkLog \o Call("CreateInPlace", "ENOENT")
            /\ tkDisk' = tkDisk
       ELSE \E made \in BOOLEAN, rmOK \in BOOLEAN :
               /\ tkLog' = tkLog \o Call("CreateInPlace", ResOf(made /\ rmOK))
               /\ tkDisk' =
                    IF ~made THEN tkDisk
                    ELSE [tkDisk EXCEPT
                            !.arch = [content |-> tkDisk.tree, big |-> FALSE,
                                      bad |-> FALSE],
                            !.tree = IF rmOK THEN "none" ELSE @]
    /\ tkPc' = TaskDeferred
    /\ UNCHANGED <<tkCfg, tkTasks, tkId, tkAbsPath, tkUseTmpDir, tkDeferRm,
                   tkRet, tkInit, tkScratch, tkPast>>
    /\ UNCHANGED taskRest

\* deferred: os.RemoveAll(tmpPath)
TaskRmTmp ==
    /\ tkPc = "rmtmp"
    /\ \E ok \in BOOLEAN :
          /\ tkLog' = tkLog \o Call("RmTmp", ResOf(ok))
          /\ tkDisk' = IF ok THEN [tkDisk EXCEPT !.tmpDest = "none", !.tmpPath = 0]
                       ELSE tkDisk
          /\ tkScratch' = IF ok THEN tkScratch \ {tkDisk.tmpPath} ELSE tkScratch
    /\ tkPc' = "cleanup"
    /\ UNCHANGED <<tkCfg, tkTasks, tkId, tkAbsPath, tkUseTmpDir, tkDeferRm,
                   tkRet, tkInit, tkPast>>
    /\ UNCHANGED taskRest

\* deferred: r.Cleanup()
TaskCleanup ==
    /\ tkPc = "cleanup"
    /\ \E ok \in BOOLEAN : tkLog' = tkLog \o Call("Cleanup", ResOf(ok))
    /\ tkPc' = "end"
    /\ UNCHANGED <<tkCfg, tkTasks, tkId, tkDisk, tkAbsPath, tkUseTmpDir,
                   tkDeferRm, tkRet, tkInit, tkScratch, tkPast>>
    /\ UNCHANGED taskRest

\* if err == nil { idChan <- r.id }, and back to the range
TaskEnd ==
    /\ tkPc = "end"
    /\ tkLog' = IF tkRet = "nil" THEN Append(tkLog, Ev("Emit", "ok")) ELSE tkLog
    /\ tkPast' = Append(tkPast,
                        [failed |-> \E i \in 1..Len(tkLog) : tkLog[i].res # "ok",
                         emitted |-> tkRet = "nil"])
    /\ tkPc' = "idle"
    /\ UNCHANGED <<tkCfg, tkTasks, tkId, tkDisk, tkAbsPath, tkUseTmpDir,
                   tkDeferRm, tkRet, tkInit, tkScratch>>
    /\ UNCHANGED taskRest

NextTask ==
    \/ TaskDequeue
    \/ TaskWorkerExit
    \/ TaskTempDir
    \/ TaskExtract
    \/ TaskFetch
    \/ TaskReclone
    \/ TaskTar
    \/ TaskRmTmp
    \/ TaskCleanup
    \/ TaskEnd

SpecTask == InitTask /\ [][NextTask]_vars

\* the task's log holds the call op with result res
Logged(op, res) == \E i \in 1..Len(tkLog) : tkLog[i] = Ev(op, res)

\* the positions of the log after position i
After(i) == (i + 1)..Len(tkLog)

\* the tree update worked on: tmpDest when useTmpDir stayed true
UpdatedTree == IF tkUseTmpDir THEN tkDisk.tmpDest ELSE tkDisk.tree

\* no later step of the task has taken the tree away: neither the purge of
\* the scratch directory nor an archive made in place
StillThere ==
    /\ ~Logged("RmTmp", "ok")
    /\ \A i \in 1..Len(tkLog) : tkLog[i].op # "CreateInPlace"

\* C21: when the update of an existing tree fails with the network error,
\* the error is recorded, the tree is neither deleted by update nor cloned
\* again, and the task ends in error without emitting its id.
C21_NetworkErrorSkips ==
    \A i \in 1..Len(tkLog) :
        tkLog[i] = Ev("Update", "ErrNetwork") =>
            /\ i < Len(tkLog)
            /\ tkLog[i + 1] = Recorded
            /\ \A j \in After(i) : tkLog[j].op \notin {"RemoveAll", "Clone", "Emit"}
            /\ tkRet = "err"
            /\ tkPc \notin {"reclone", "tar"}
            /\ StillThere => ~Missing(UpdatedTree)

C21_Witness ==
    /\ tkPc = "idle"
    /\ Logged("Update", "ErrNetwork")
    /\ ~Missing(tkDisk.tree)

C23_RecordDeleteReclone ==
    \A i \in 1..Len(tkLog) :
        (tkLog[i].op = "Update" /\ tkLog[i].res \in {"ErrNoSpace", "err"}) =>
            /\ i < Len(tkLog)
            /\ tkLog[i + 1] = Recorded
            /\ Len(tkLog) = i + 1 => tkPc = "reclone"
            /\ Len(tkLog) > i + 1 =>
                  /\ tkLog[i + 2].op = "RemoveAll"
                  /\ IF tkLog[i + 2].res = "ok"
                     THEN /\ tkLog[i + 3].op = "Clone"
                          /\ tkLog[i + 3].res = "ok" =>
                                (StillThere => UpdatedTree = "fetched")
                          /\ tkLog[i + 3].res # "ok" =>
                                (tkRet = "err" /\ ~Logged("Emit", "ok"))
                          /\ Logged("Emit", "ok") => tkLog[i + 3].res = "ok"
                     ELSE /\ tkLog[i + 3] = Recorded
                          /\ \A j \in After(i) : tkLog[j].op \notin {"Clone", "Emit"}
                          /\ tkRet = "err"

C23_Witness ==
    /\ tkPc = "idle"
    /\ Logged("Update", "err")
    /\ Logged("RemoveAll", "err")
    /\ ~Logged("Clone", "ok")
    /\ tkRet = "err"

\* the task's log holds a failure of op at position i
FailedAt(i, ops) == tkLog[i].op \in ops /\ tkLog[i].res # "ok"

\* every task taken from the channel has ended, or is the one in progress
TasksAccounted ==
    /\ tkId + tkTasks = MaxTasks
    /\ Len(tkPast) = IF tkPc \in {"idle", "exited"} THEN tkId ELSE tkId - 1

EndedFetched ==
    /\ tkPc = "idle"
    /\ tkId > 0
    /\ Logged("Clone", "ok") \/ Logged("Update", "ok")

\* no call of the task failed for a reason of its own (disk full,
\* permissions, network) but the extraction of the archive: "ENOENT" is
\* the failure the closure brings about by naming a directory that does
\* not exist
OnlyExtractFaulted ==
    \A i \in 1..Len(tkLog) :
        tkLog[i].res = "err" => tkLog[i].op \in {"Extract", "ExtractInPlace"}

\* C25 as stated: with tar_repositories, after every task whose clone or
\* update succeeded the archive <abs_path>.tar exists and holds the tree
\* just fetched, whatever the task found on disk.
C25_AsStated ==
    (tkCfg.TarRepos /\ EndedFetched /\ OnlyExtractFaulted)
        => tkDisk.arch.content = "fetched"

\* the extraction of the archive failed at position i of the log
ExtractFailedAt(i) == FailedAt(i, {"Extract", "ExtractInPlace"})

\* the call that follows the two removals after the failed extraction at i
FetchAfter(i) == tkLog[i + 3]

CallsOf(op) == {i \in 1..Len(tkLog) : tkLog[i].op = op}

\* the task got a scratch directory and has run its deferred calls
ScratchTaskOver == tkPc \in {"end", "idle"} /\ Logged("TempDir", "ok")

\* the scratch directory of the task is removed exactly once, after every
\* other call of the closure and before the backend cleanup, and a removal
\* that succeeded leaves nothing of it
ScratchRemoved ==
    ScratchTaskOver =>
        /\ Cardinality(CallsOf("RmTmp")) = 1
        /\ \A i \in CallsOf("RmTmp") :
              /\ \A j \in After(i) : tkLog[j].op \in {"Record", "Cleanup", "Emit"}
              /\ tkLog[i].res = "ok" =>
                    /\ tkDisk.tmpPath = 0
                    /\ tkDisk.tmpDest = "none"

\* the directory a step creates is none of those that exist
ScratchFresh ==
    (tkDisk'.tmpPath # 0 /\ tkDisk'.tmpPath # tkDisk.tmpPath)
        => (tkDisk'.tmpPath \notin tkScratch /\ tkDisk.tmpPath = 0)

ExitPanic == 2

\* the exit status of a process killed by SIGTERM (128 + 15)
KilledBySignal == 143

\* the signals of signal.Notify(c, os.Interrupt, os.Kill) that can be caught
Notified == {"interrupt"}

ShutdownOrder == <<"Sync", "Close", "Deflate", "Exit">>

InitShutdown ==
    /\ ErrBagNew
    /\ shPc = "wait"
    /\ shSignal = "none"
    /\ shFile = [open |-> TRUE, dirty |-> FALSE]
    /\ shLog = <<>>
    /\ shExit = NoExit
    /\ shIds = 0
    /\ CallIdle
    /\ ClassifierIdle
    /\ FetcherIdle
    /\ ResumeIdle
    /\ CrawlIdle
    /\ UpsertIdle
    /\ LinkIdle
    /\ TaskIdle
    /\ StartIdle
    /\ FnIdle

shutRest == <<baseVars, resumeVars, crawlVars, upsertVars, linkVars, taskVars,
              startVars, fnVars>>

\* the process has not exited
Running == shExit = NoExit

\* errBag.Inflate(), before any of the goroutines below is started
ShInflate == Running /\ Inflate

Inflated == Running /\ leakPc # "none"

\* the leaker
ShLeakDone == Inflated /\ LeakDone

ShLeakToken == Inflated /\ LeakToken

ShLeakWake == Inflated /\ LeakWake

\* a worker goroutine records an error of its task, or returns from the
\* sleep of a throttled Record
ShRecord == Inflated /\ Record

ShRecordWake == Inflated /\ RecordWake

\* a send on the closed errChan panics: the Go runtime ends the process
ShPanic ==
    /\ Running
    /\ \E r \in Recorders : recPc[r] = "panicked"
    /\ shExit' = ExitPanic
    /\ UNCHANGED <<shPc, shSignal, shFile, shLog, shIds>>
    /\ UNCHANGED shutRest

\* the progress writer receives an id: f.Seek(0, 0) and fmt.Fprintf, whose
\* errors on a closed file are logged or dropped
ShWrite ==
    /\ Inflated
    /\ shIds < MaxIds
    /\ shIds' = shIds + 1
    /\ shFile' = IF shFile.open THEN [shFile EXCEPT !.dirty = TRUE] ELSE shFile
    /\ UNCHANGED <<shPc, shSignal, shLog, shExit>>
    /\ UNCHANGED shutRest

\* a signal is sent to the process: one that signal.Notify names is queued
\* in c, another one has its default effect
ShSignal ==
    /\ Inflated
    /\ shSignal = "none"
    /\ \E sig \in {"interrupt", "terminate"} :
          /\ shSignal' = sig
          /\ shExit' = IF sig \in Notified THEN shExit ELSE KilledBySignal
    /\ UNCHANGED <<shPc, shFile, shLog, shIds>>
    /\ UNCHANGED shutRest

\* "<-c"
ShCatch ==
    /\ Running
    /\ shPc = "wait"
    /\ shSignal \in Notified
    /\ shPc' = "sync"
    /\ UNCHANGED <<shSignal, shFile, shLog, shExit, shIds>>
    /\ UNCHANGED shutRest

\* f.Sync()
ShSync ==
    /\ Running
    /\ shPc = "sync"
    /\ shFile' = [shFile EXCEPT !.dirty = FALSE]
    /\ shLog' = Append(shLog, "Sync")
    /\ shPc' = "close"
    /\ UNCHANGED <<shSignal, shExit, shIds>>
    /\ UNCHANGED shutRest

\* f.Close()
ShClose ==
    /\ Running
    /\ shPc = "close"
    /\ shFile' = [shFile EXCEPT !.open = FALSE]
    /\ shLog' = Append(shLog, "Close")
    /\ shPc' = "deflate"
    /\ UNCHANGED <<shSignal, shExit, shIds>>
    /\ UNCHANGED shutRest

\* errBag.Deflate(), statement by statement
ShDeflateSend == Running /\ shPc = "deflate" /\ DeflateSend

ShDeflateCloseDone == Running /\ shPc = "deflate" /\ DeflateCloseDone

ShDeflateCloseErrChan == Running /\ shPc = "deflate" /\ DeflateCloseErrChan

\* errBag.Deflate() has returned
ShDeflated ==
    /\ Running
    /\ shPc = "deflate"
    /\ deflatePc = "returned"
    /\ shLog' = Append(shLog, "Deflate")
    /\ shPc' = "exit"
    /\ UNCHANGED <<shSignal, shFile, shExit, shIds>>
    /\ UNCHANGED shutRest

\* os.Exit(0)
ShExit ==
    /\ Running
    /\ shPc = "exit"
    /\ shExit' = 0
    /\ shLog' = Append(shLog, "Exit")
    /\ shPc' = "exited"
    /\ UNCHANGED <<shSignal, shFile, shIds>>
    /\ UNCHANGED shutRest

NextShutdown ==
    \/ ShInflate
    \/ ShLeakDone
    \/ ShLeakToken
    \/ ShLeakWake
    \/ ShRecord
    \/ ShRecordWake
    \/ ShPanic
    \/ ShWrite
    \/ ShSignal
    \/ ShCatch
    \/ ShSync
    \/ ShClose
    \/ ShDeflateSend
    \/ ShDeflateCloseDone
    \/ ShDeflateCloseErrChan
    \/ ShDeflated
    \/ ShExit

SpecShutdown == InitShutdown /\ [][NextShutdown]_vars

\* C28 as stated: once the interrupt signal has been sent, the process
\* ends with exit status 0 after the handler has flushed the progress file,
\* closed it and deflated the throttler, in that order, whatever the
\* workers, the progress writer and the leaker do meanwhile.
C28_AsStated ==
    (shSignal = "interrupt" /\ shExit # NoExit)
        => (shExit = 0 /\ shLog = ShutdownOrder)

(***************************************************************************)
(* main from the flags to wg.Wait() (src/crawld.go:336-449).               *)
(***************************************************************************)
\* the exit status of glog.Fatal
ExitLogFatal == 255

\* what main may be started with: the -c flag given or not, the file it
\* names, the two intervals of the configuration parseable or not, the
\* database reachable or not, the crawlers constructible or not, the
\* throttler's parameters accepted by errbag.New or not, the progress file
\* writable or not, and the two --disable flags
StartArgs ==
    [configPath : BOOLEAN, config : {"unreadable", "malformed", "invalid", "ok"},
     crawlInterval : BOOLEAN, fetchInterval : BOOLEAN, db : BOOLEAN,
     crawlers : BOOLEAN, throttler : BOOLEAN, idFile : BOOLEAN,
     disableCrawlers : BOOLEAN, disableFetcher : BOOLEAN]

\* config.ReadConfig: ioutil.ReadFile, json.Unmarshal and Config.verify,
\* which parses both intervals
ReadConfigOK(a) == a.config = "ok" /\ a.crawlInterval /\ a.fetchInterval

InitStartup ==
    /\ stPc = "flags"
    /\ stArgs \in StartArgs
    /\ stFailed = "none"
    /\ stExit = NoExit
    /\ ErrBagIdle
    /\ CallIdle
    /\ ClassifierIdle
    /\ FetcherIdle
    /\ ResumeIdle
    /\ CrawlIdle
    /\ UpsertIdle
    /\ LinkIdle
    /\ TaskIdle
    /\ ShutIdle
    /\ FnIdle

startRest == <<baseVars, resumeVars, crawlVars, upsertVars, linkVars, taskVars,
               shutVars, fnVars>>

\* the process ends with status code after the failure of step
ExitAfter(step, code) ==
    /\ stExit' = code
    /\ stFailed' = step
    /\ stPc' = "exited"

\* fatal(a): glog.Error(a); os.Exit(1)
fatal(step) == ExitAfter(step, 1)

\* a throttler that cannot be made: glog.Error(...) and "return" from main,
\* which ends the process as a main that has finished
ThrottlerFailure == ExitAfter("throttler", 0)

\* a statement of main: on ok the next statement, else what onFail says
Proceed(ok, next, onFail) ==
    /\ IF ok
       THEN stPc' = next /\ UNCHANGED <<stFailed, stExit>>
       ELSE onFail
    /\ UNCHANGED stArgs
    /\ UNCHANGED startRest

\* if len(*configPath) == 0 { fatal("no configuration specified") }
StFlags ==
    /\ stPc = "flags"
    /\ Proceed(stArgs.configPath, "readConfig", fatal("configPath"))

\* cfg, err := config.ReadConfig(*configPath)
StReadConfig ==
    /\ stPc = "readConfig"
    /\ Proceed(ReadConfigOK(stArgs), "openDB", fatal("config"))

\* db, err := openDBSession(cfg.Database)
StOpenDB ==
    /\ stPc = "openDB"
    /\ Proceed(stArgs.db, "crawlers", fatal("db"))

\* c, err := crawlers.New(crawlerConfig, db), for each crawler
StNewCrawlers ==
    /\ stPc = "crawlers"
    /\ Proceed(stArgs.crawlers, "interval", fatal("crawlers"))

\* crawlingInterval, err := time.ParseDuration(cfg.CrawlingTimeInterval)
StParseInterval ==
    /\ stPc = "interval"
    /\ Proceed(stArgs.crawlInterval, "fetcher", fatal("interval"))

\* if !*disableFetcher: errbag.New, errBag.Inflate(), the resume id, the
\* signal channel, the goroutine of the progress writer
StStartFetcher ==
    /\ stPc = "fetcher"
    /\ Proceed(stArgs.disableFetcher \/ stArgs.throttler,
               IF stArgs.disableFetcher THEN "wait" ELSE "openIdFile",
               ThrottlerFailure)

\* the progress writer: os.OpenFile, glog.Fatal when it fails
StOpenIdFile ==
    /\ stPc = "openIdFile"
    /\ Proceed(stArgs.idFile, "repoWorker", ExitAfter("idFile", ExitLogFatal))

\* repoWorker: fetchInterval, err := time.ParseDuration(...)
StRepoWorker ==
    /\ stPc = "repoWorker"
    /\ Proceed(stArgs.fetchInterval, "wait", fatal("interval"))

\* wg.Wait() returns when no worker was started: main ends
StCompleted ==
    /\ stPc = "wait"
    /\ stArgs.disableCrawlers /\ stArgs.disableFetcher
    /\ stExit' = 0
    /\ stPc' = "completed"
    /\ UNCHANGED <<stArgs, stFailed>>
    /\ UNCHANGED startRest

\* the interrupt signal while the fetcher runs: the handler ends the
\* process with os.Exit(0)
StSignalled ==
    /\ stPc = "wait"
    /\ ~stArgs.disableFetcher
    /\ stExit' = 0
    /\ stPc' = "signalled"
    /\ UNCHANGED <<stArgs, stFailed>>
    /\ UNCHANGED startRest

NextStartup ==
    \/ StFlags
    \/ StReadConfig
    \/ StOpenDB
    \/ StNewCrawlers
    \/ StParseInterval
    \/ StStartFetcher
    \/ StOpenIdFile
    \/ StRepoWorker
    \/ StCompleted
    \/ StSignalled

SpecStartup == InitStartup /\ [][NextStartup]_vars

\* the failures of the startup the specification names
StartupFailures == {"configPath", "config", "crawlers", "interval", "throttler"}

\* C29 as stated: a process whose startup failed at the -c flag, at the
\* configuration, at the construction of a crawler, at an interval or at
\* the construction of the throttler ends with exit status 1, and exit
\* status 0 is that of a signal shutdown or of a main that completed.
C29_AsStated ==
    /\ stFailed \in StartupFailures => stExit = 1
    /\ stExit = 0 => (stFailed = "none" /\ stPc \in {"signalled", "completed"})

(***************************************************************************)
(* The fork filter of the two fetch loops, on SpecCrawl.                   *)
(***************************************************************************)
\* the repositories upserted by the Crawl so far, all languages together
AllUpserted == UNION {crUpserted[l] : l \in DOMAIN crUpserted}

\* C30: with fork = false no repository whose Fork field is true is
\* upserted, in listing mode and in search mode alike; with fork = true no
\* repository is skipped for its Fork field; and only forks are ever
\* skipped for it.
C30_ForkFilter ==
    /\ ~crCfg.Fork => AllUpserted \cap crForks = {}
    /\ crCfg.Fork => crForkSkips = {}
    /\ crForkSkips \subseteq crForks

C30_Witness ==
    /\ crPc = "done"
    /\ ~crCfg.Fork
    /\ crCfg.UseSearchAPI
    /\ crForkSkips # {}
    /\ AllUpserted # {}
    /\ crForks \ crForkSkips # {}

(***************************************************************************)
(* errbag.New on its three parameters (src/crawlers/github.go:1083-1098).  *)
(***************************************************************************)
\* "if leakInterval < 100"
MinLeakInterval == 100

LeakIntervals ==
    {0} \cup ((MinLeakInterval - LeakSpan)..(MinLeakInterval + LeakSpan))

\* the three parameters, of type uint
NewArgs ==
    [waitTime : 0..MaxWaitTime, errBagSize : 0..MaxBagSize,
     leakInterval : LeakIntervals]

\* a New that takes the smallest leak interval for a bad one
NewRejectsUpTo(a) ==
    IF a.waitTime = 0 THEN "waitTime"
    ELSE IF a.errBagSize = 0 THEN "errBagSize"
    ELSE IF a.leakInterval <= MinLeakInterval THEN "leakInterval"
    ELSE NoErr

\* the three tests of New, in their order: the parameter refused, if any
NewRejects(a) ==
    IF a.waitTime = 0 THEN "waitTime"
    ELSE IF a.errBagSize = 0 THEN "errBagSize"
    ELSE IF a.leakInterval < MinLeakInterval THEN "leakInterval"
    ELSE NoErr

\* New(waitTime, errBagSize, leakInterval): (nil, error) or (&ErrBag{}, nil)
New(a) ==
    IF NewRejects(a) # NoErr
    THEN [eb |-> [isNil |-> TRUE], err |-> NewRejects(a)]
    ELSE [eb |-> [isNil |-> FALSE, waitTime |-> a.waitTime,
                  leakInterval |-> a.leakInterval,
                  errChan |-> MakeChan(a.errBagSize), done |-> MakeChan(1)],
          err |-> NoErr]

InitNew ==
    /\ fnPc = "New"
    /\ fnIn \in NewArgs
    /\ fnOut = <<>>
    /\ ErrBagIdle
    /\ CallIdle
    /\ ClassifierIdle
    /\ FetcherIdle
    /\ ResumeIdle
    /\ CrawlIdle
    /\ UpsertIdle
    /\ LinkIdle
    /\ TaskIdle
    /\ ShutIdle
    /\ StartIdle

fnRest == <<baseVars, resumeVars, crawlVars, upsertVars, linkVars, taskVars,
            shutVars, startVars>>

CallNew ==
    /\ fnPc = "New"
    /\ fnOut' = New(fnIn)
    /\ fnPc' = "returned"
    /\ UNCHANGED fnIn
    /\ UNCHANGED fnRest

NextNew == CallNew

SpecNew == InitNew /\ [][NextNew]_vars

\* C31: New returns an error, and no ErrBag, exactly when waitTime = 0 or
\* errBagSize = 0 or leakInterval < 100; for every other triple it returns
\* an ErrBag made of its parameters and no error.
C31_NewFailsOnBadArgsOnly ==
    fnPc = "returned" =>
        LET bad == \/ fnIn.waitTime = 0
                   \/ fnIn.errBagSize = 0
                   \/ fnIn.leakInterval < 100
        IN /\ bad <=> fnOut.err # NoErr
           /\ bad <=> fnOut.eb.isNil
           /\ ~bad => /\ fnOut.eb.waitTime = fnIn.waitTime
                      /\ fnOut.eb.leakInterval = fnIn.leakInterval
                      /\ fnOut.eb.errChan.cap = fnIn.errBagSize
                      /\ fnOut.eb.errChan.buf = 0

C31_Witness ==
    /\ fnPc = "returned"
    /\ fnIn.waitTime > 0
    /\ fnIn.errBagSize > 0
    /\ fnIn.leakInterval = 100
    /\ fnOut.err = NoErr

(***************************************************************************)
(* isLanguageWanted (src/unnamed/part_008:1098-1131) and the language      *)
(* filter of fetchRepositories (src/crawlers/github.go:170-182). A string  *)
(* is a sequence of characters, a character a letter in one of two cases.  *)
(***************************************************************************)
Chars == [l : 1..NumLetters, up : BOOLEAN]

RECURSIVE StringsOfLen(_)
StringsOfLen(n) ==
    IF n = 0 THEN {<<>>}
    ELSE {Append(w, c) : w \in StringsOfLen(n - 1), c \in Chars}

LangNames == UNION {StringsOfLen(n) : n \in 1..MaxLangLen}

\* a comparison that tells the two cases of a letter apart
EqualExact(a, b) == a = b

\* strings.EqualFold: equal once the case of the letters is left aside
EqualFold(a, b) ==
    /\ Len(a) = Len(b)
    /\ \A i \in 1..Len(a) : a[i].l = b[i].l

\* the values prjLangs may hold: the nil interface, a map[string]int (its
\* keys; the byte counts play no part), a *string, nil or not, and a value
\* of another type
NilLangs == [type |-> "nil"]

LangMaps ==
    {[type |-> "map", keys |-> ks] :
        ks \in {k \in SUBSET LangNames : Cardinality(k) <= MaxBreakdown}}

LangPointers ==
    {[type |-> "*string", isNil |-> TRUE]} \cup
    {[type |-> "*string", isNil |-> FALSE, lang |-> n] : n \in LangNames}

\* the lists of wanted languages
WantedLists ==
    UNION {[1..n -> LangNames] : n \in 0..MaxLanguages}

isLanguageWanted(suppLangs, prjLangs) ==
    IF prjLangs.type = "nil" THEN [ok |-> FALSE, err |-> NoErr]
    ELSE IF prjLangs.type = "map"
    THEN [ok |-> \E k \in prjLangs.keys : \E i \in 1..Len(suppLangs) :
                    EqualFold(k, suppLangs[i]),
          err |-> NoErr]
    ELSE IF prjLangs.type = "*string"
    THEN [ok |-> /\ ~prjLangs.isNil
                 /\ \E i \in 1..Len(suppLangs) : suppLangs[i] = prjLangs.lang,
          err |-> NoErr]
    ELSE [ok |-> FALSE, err |-> "isLanguageSupported: invalid prjLangs type"]

NotCalled == [ok |-> FALSE, err |-> "not called"]

InitLang ==
    /\ fnPc = "repo"
    /\ fnIn \in [Languages : WantedLists,
                 Language : LangPointers,
                 langs : {NilLangs} \cup LangMaps]
    /\ fnOut = [primary |-> NotCalled, fetched |-> FALSE,
                breakdown |-> NotCalled, test |-> NotCalled]
    /\ ErrBagIdle
    /\ CallIdle
    /\ ClassifierIdle
    /\ FetcherIdle
    /\ ResumeIdle
    /\ CrawlIdle
    /\ UpsertIdle
    /\ LinkIdle
    /\ TaskIdle
    /\ ShutIdle
    /\ StartIdle

\* TestIsLanguageWanted: the function on a list and a breakdown
LangTest ==
    /\ fnPc = "repo"
    /\ fnIn.langs.type = "map"
    /\ fnOut' = [fnOut EXCEPT !.test = isLanguageWanted(fnIn.Languages, fnIn.langs)]
    /\ fnPc' = "tested"
    /\ UNCHANGED fnIn
    /\ UNCHANGED fnRest

\* fetchRepositories: isLanguageWanted(g.Languages, repo.Language)
LangPrimary ==
    /\ fnPc = "repo"
    /\ LET r == isLanguageWanted(fnIn.Languages, fnIn.Language)
       IN /\ fnOut' = [fnOut EXCEPT !.primary = r]
          /\ fnPc' = IF r.err # NoErr THEN "skipped"
                     ELSE IF r.ok THEN "kept" ELSE "languages"
    /\ UNCHANGED fnIn
    /\ UNCHANGED fnRest

\* fetchRepositories: langs := g.call(false, g.fetchRepositoryLanguages, ...)
\* and isLanguageWanted(g.Languages, langs)
LangBreakdown ==
    /\ fnPc = "languages"
    /\ LET r == isLanguageWanted(fnIn.Languages, fnIn.langs)
       IN /\ fnOut' = [fnOut EXCEPT !.fetched = TRUE, !.breakdown = r]
          /\ fnPc' = IF r.err = NoErr /\ r.ok THEN "kept" ELSE "skipped"
    /\ UNCHANGED fnIn
    /\ UNCHANGED fnRest

NextLang ==
    \/ LangTest
    \/ LangPrimary
    \/ LangBreakdown

SpecLang == InitLang /\ [][NextLang]_vars

\* the letters of a name, their case left aside
LettersOf(name) == [i \in DOMAIN name |-> name[i].l]

\* some language of the breakdown is a wanted language, ignoring case
BreakdownWanted ==
    /\ fnIn.langs.type = "map"
    /\ \E k \in fnIn.langs.keys : \E i \in DOMAIN fnIn.Languages :
          LettersOf(k) = LettersOf(fnIn.Languages[i])

\* C32: on a list of wanted languages and a breakdown the filter returns
\* true exactly when some language of the breakdown equals some wanted
\* language ignoring case, and it returns no error; in listing mode the
\* breakdown is fetched and tested exactly when the test of the primary
\* language returned false, and the repository is kept exactly when one of
\* the two tests returned true.
C32_LanguageFilter ==
    /\ fnPc = "tested" =>
          /\ fnOut.test.err = NoErr
          /\ fnOut.test.ok <=> BreakdownWanted
    /\ fnPc \in {"kept", "skipped"} =>
          /\ fnOut.primary.err = NoErr
          /\ fnOut.fetched <=> ~fnOut.primary.ok
          /\ fnOut.fetched =>
                /\ fnOut.breakdown.err = NoErr
                /\ fnOut.breakdown.ok <=> BreakdownWanted
          /\ (fnPc = "kept") <=> (fnOut.primary.ok \/ fnOut.breakdown.ok)
    /\ fnPc = "languages" => (~fnOut.primary.ok /\ ~fnOut.fetched)

C32_Witness ==
    /\ fnPc = "kept"
    /\ fnOut.fetched
    /\ fnOut.breakdown.ok
    /\ \A k \in fnIn.langs.keys : \A i \in DOMAIN fnIn.Languages :
          k # fnIn.Languages[i]

(***************************************************************************)
(* SpecTar: package tar.  A file system is a function from paths to nodes; *)
(* a path is the sequence of its components, relative to the directory     *)
(* the test works in ("./testdata"), which is the empty path.              *)
(***************************************************************************)

\* Symbolic links followed before EvalSymlinks gives up.
MaxSymlinks == 3

TarNames == <<"a", "b">>

FileNode(bs) == [kind |-> "file", bytes |-> bs, link |-> <<>>]
DirNode == [kind |-> "dir", bytes |-> <<>>, link |-> <<>>]
LinkNode(text) == [kind |-> "symlink", bytes |-> <<>>, link |-> text]

DirOf(path) == SubSeq(path, 1, Len(path) - 1)

IsUnder(path, dir) ==
    /\ Len(path) >= Len(dir)
    /\ SubSeq(path, 1, Len(dir)) = dir

RECURSIVE CommonLen(_, _)
CommonLen(p, q) ==
    IF p # <<>> /\ q # <<>> /\ Head(p) = Head(q)
    THEN 1 + CommonLen(Tail(p), Tail(q))
    ELSE 0

\* filepath.Rel of two clean paths: up from base to the common ancestor,
\* then down to the target.
TarRel(base, target) ==
    LET k == CommonLen(base, target)
    IN  [i \in 1..(Len(base) - k) |-> ".."] \o SubSeq(target, k + 1, Len(target))

\* filepath.EvalSymlinks: cur is the part already resolved, rest the
\* components still to walk.
RECURSIVE EvalSymlinks(_, _, _, _)
EvalSymlinks(fs, cur, rest, fuel) ==
    IF rest = <<>> THEN [ok |-> TRUE, path |-> cur]
    ELSE LET c == Head(rest)
             t == Tail(rest)
             cand == Append(cur, c)
         IN  IF c = ".."
             THEN IF cur = <<>> THEN [ok |-> FALSE, path |-> <<>>]
                  ELSE EvalSymlinks(fs, DirOf(cur), t, fuel)
             ELSE IF cand \notin DOMAIN fs THEN [ok |-> FALSE, path |-> <<>>]
             ELSE IF fs[cand].kind = "symlink"
             THEN IF fuel = 0 THEN [ok |-> FALSE, path |-> <<>>]
                  ELSE EvalSymlinks(fs, cur, fs[cand].link \o t, fuel - 1)
             ELSE IF t # <<>> /\ fs[cand].kind # "dir"
             THEN [ok |-> FALSE, path |-> <<>>]
             ELSE EvalSymlinks(fs, cand, t, fuel)

TarResolve(fs, path) == EvalSymlinks(fs, <<>>, path, MaxSymlinks)

\* os.Stat: the node a path leads to, symbolic links followed.
TarStat(fs, path) ==
    LET r == TarResolve(fs, path)
    IN  IF ~r.ok THEN [ok |-> FALSE, kind |-> "none"]
        ELSE IF r.path = <<>> THEN [ok |-> TRUE, kind |-> "dir"]
        ELSE [ok |-> TRUE, kind |-> fs[r.path].kind]

\* The link written in the header as it would be without filepath.Rel.
LinkResolved(fs, path) ==
    LET r == TarResolve(fs, path)
    IN  IF r.ok THEN r.path ELSE fs[path].link

\* The link name of a header: the resolved target relative to the
\* directory of the link, or the link as read when it does not resolve.
LinkOf(fs, path) ==
    LET r == TarResolve(fs, path)
    IN  IF r.ok THEN TarRel(DirOf(path), r.path) ELSE fs[path].link

\* filepath.Walk: the root, then its entries in lexical order, depth
\* first; a symbolic link is visited and not followed.
RECURSIVE TarWalk(_, _)
RECURSIVE WalkNames(_, _, _)
TarWalk(fs, path) ==
    IF path \notin DOMAIN fs THEN <<>>
    ELSE <<path>> \o (IF fs[path].kind = "dir" THEN WalkNames(fs, path, 1)
                      ELSE <<>>)

WalkNames(fs, dir, i) ==
    IF i > Len(TarNames) THEN <<>>
    ELSE TarWalk(fs, Append(dir, TarNames[i])) \o WalkNames(fs, dir, i + 1)

TarHeader(fs, dirPath, path) ==
    [Name |-> TarRel(DirOf(dirPath), path),
     kind |-> fs[path].kind,
     Linkname |-> IF fs[path].kind = "symlink" THEN LinkOf(fs, path) ELSE <<>>,
     bytes |-> fs[path].bytes]

TarPut(fs, path, node) ==
    [p \in DOMAIN fs \cup {path} |-> IF p = path THEN node ELSE fs[p]]

RemoveAll(fs, path) ==
    [p \in {q \in DOMAIN fs : ~IsUnder(q, path)} |-> fs[p]]

\* Create(destPath, dirPath)
Create(fs, destPath, dirPath) ==
    LET fi == TarStat(fs, dirPath)
        paths == TarWalk(fs, dirPath)
    IN  IF ~fi.ok THEN [fs |-> fs, err |-> "no such file or directory"]
        ELSE IF fi.kind # "dir"
        THEN [fs |-> fs, err |-> "given path is not a directory"]
        ELSE [fs |-> TarPut(fs, destPath,
                       FileNode([i \in DOMAIN paths |->
                                    TarHeader(fs, dirPath, paths[i])])),
              err |-> NoErr]

\* CreateInPlace(dirPath), the archive being dirPath + ".tar"
CreateInPlace(fs, destPath, dirPath) ==
    LET r == Create(fs, destPath, dirPath)
    IN  IF r.err # NoErr THEN r
        ELSE [fs |-> RemoveAll(r.fs, dirPath), err |-> NoErr]

ParentIsDir(fs, path) ==
    \/ DirOf(path) = <<>>
    \/ /\ DirOf(path) \in DOMAIN fs
       /\ fs[DirOf(path)].kind = "dir"

\* The loop of Extract over the headers left to read.
RECURSIVE ExtractEntries(_, _, _)
ExtractEntries(fs, destPath, hdrs) ==
    IF hdrs = <<>> THEN [fs |-> fs, err |-> NoErr]
    ELSE LET hdr == Head(hdrs)
             target == destPath \o hdr.Name
             at == TarResolve(fs, target)
         IN  CASE hdr.kind = "dir" ->
                    IF target \in DOMAIN fs \/ ~ParentIsDir(fs, target)
                    THEN [fs |-> fs, err |-> "mkdir"]
                    ELSE ExtractEntries(TarPut(fs, target, DirNode), destPath,
                                        Tail(hdrs))
               [] hdr.kind = "symlink" ->
                    IF target \in DOMAIN fs \/ ~ParentIsDir(fs, target)
                    THEN ExtractEntries(fs, destPath, Tail(hdrs))
                    ELSE ExtractEntries(TarPut(fs, target, LinkNode(hdr.Linkname)),
                                        destPath, Tail(hdrs))
               [] OTHER ->
                    IF target \notin DOMAIN fs
                    THEN IF ~ParentIsDir(fs, target)
                         THEN [fs |-> fs, err |-> "open"]
                         ELSE ExtractEntries(TarPut(fs, target, FileNode(hdr.bytes)),
                                             destPath, Tail(hdrs))
                    ELSE IF ~at.ok \/ at.path = <<>> \/ fs[at.path].kind # "file"
                    THEN [fs |-> fs, err |-> "open"]
                    ELSE ExtractEntries(TarPut(fs, at.path, FileNode(hdr.bytes)),
                                        destPath, Tail(hdrs))

\* Extract(destPath, archivePath); destPath exists in every call modelled.
Extract(fs, destPath, archivePath) ==
    LET fi == TarStat(fs, archivePath)
    IN  IF ~fi.ok THEN [fs |-> fs, err |-> "no such file or directory"]
        ELSE IF fi.kind = "dir" THEN [fs |-> fs, err |-> "given path is a directory"]
        ELSE ExtractEntries(fs, destPath, fs[TarResolve(fs, archivePath).path].bytes)

\* filepath.Ext and strings.TrimSuffix on the names used
TarExt(name) == IF name \in {"p.tar", "q.tar"} THEN ".tar" ELSE ""
TrimSuffix(name) == IF name = "p.tar" THEN "p" ELSE IF name = "q.tar" THEN "q" ELSE name

\* ExtractInPlace(archivePath)
ExtractInPlace(fs, archivePath) ==
    LET name == archivePath[Len(archivePath)]
        destPath == DirOf(Append(DirOf(archivePath), TrimSuffix(name)))
        r == Extract(fs, destPath, archivePath)
    IN  IF TarExt(name) = "" THEN [fs |-> fs, err |-> "expected a file extension"]
        ELSE IF r.err # NoErr THEN r
        ELSE [fs |-> RemoveAll(r.fs, archivePath), err |-> NoErr]

\* The directory archived by the tests ("./testdata/parent") and the
\* paths a tree may fill under it.
TarRoot == <<"p">>

TarPaths == {<<"p", "a">>, <<"p", "b">>, <<"p", "a", "a">>, <<"p", "a", "b">>}

TarOutside == <<"o">>

TarTargets == TarPaths \cup {TarRoot, TarOutside}

TarContents == {<<1>>, <<2, 1>>}

Absent == [kind |-> "absent", bytes |-> <<>>, link |-> <<>>]

NodesAt(path) ==
    {Absent, DirNode}
        \cup {FileNode(bs) : bs \in TarContents}
        \cup {LinkNode(TarRel(DirOf(path), t)) : t \in TarTargets}

TreeOf(f) ==
    LET kept == {p \in TarPaths :
                    /\ f[p] # Absent
                    /\ Len(p) = 3 => f[DirOf(p)] = DirNode}
    IN  [p \in kept \cup {TarRoot, TarOutside} |->
            IF p = TarRoot THEN DirNode
            ELSE IF p = TarOutside THEN FileNode(<<3>>)
            ELSE f[p]]

Trees ==
    {TreeOf(f) : f \in {g \in [TarPaths -> UNION {NodesAt(p) : p \in TarPaths}] :
                            \A p \in TarPaths : g[p] \in NodesAt(p)}}

ArchiveOf(dirPath) == <<IF dirPath = TarRoot THEN "p.tar" ELSE "q.tar">>

InitTar ==
    /\ fnPc = "start"
    /\ fnIn \in [fs : Trees, dirPath : {TarRoot, <<"q">>}]
    /\ fnOut = [fs |-> fnIn.fs, err |-> NoErr, log |-> <<>>]
    /\ ErrBagIdle
    /\ CallIdle
    /\ ClassifierIdle
    /\ FetcherIdle
    /\ ResumeIdle
    /\ CrawlIdle
    /\ UpsertIdle
    /\ LinkIdle
    /\ TaskIdle
    /\ ShutIdle
    /\ StartIdle

TarStep(r, name) ==
    /\ fnOut' = [fs |-> r.fs, err |-> r.err, log |-> Append(fnOut.log, name)]
    /\ UNCHANGED fnIn
    /\ UNCHANGED fnRest

\* TestCreateExtract: Create(archivePath, dirPath)
TarCreate ==
    /\ fnPc = "start"
    /\ fnPc' = "created"
    /\ TarStep(Create(fnOut.fs, ArchiveOf(fnIn.dirPath), fnIn.dirPath), "Create")

\* TestCreateExtract: os.RemoveAll(dirPath)
TarRemoveAll ==
    /\ fnPc = "created"
    /\ fnOut.err = NoErr
    /\ fnPc' = "removed"
    /\ TarStep([fs |-> RemoveAll(fnOut.fs, fnIn.dirPath), err |-> NoErr], "RemoveAll")

\* Extract(filepath.Dir(dirPath), archivePath), with the directory removed
\* as in the test or still in place
TarExtract ==
    /\ fnPc \in {"created", "removed"}
    /\ fnOut.err = NoErr
    /\ fnPc' = "extracted"
    /\ TarStep(Extract(fnOut.fs, DirOf(fnIn.dirPath), ArchiveOf(fnIn.dirPath)),
               "Extract")

\* TestCreateExtractInPlace: CreateInPlace(dirPath)
TarCreateInPlace ==
    /\ fnPc = "start"
    /\ fnPc' = "createdInPlace"
    /\ TarStep(CreateInPlace(fnOut.fs, ArchiveOf(fnIn.dirPath), fnIn.dirPath),
               "CreateInPlace")

\* TestCreateExtractInPlace: ExtractInPlace(archivePath)
TarExtractInPlace ==
    /\ fnPc = "createdInPlace"
    /\ fnOut.err = NoErr
    /\ fnPc' = "extractedInPlace"
    /\ TarStep(ExtractInPlace(fnOut.fs, ArchiveOf(fnIn.dirPath)), "ExtractInPlace")

NextTar ==
    \/ TarCreate
    \/ TarRemoveAll
    \/ TarExtract
    \/ TarCreateInPlace
    \/ TarExtractInPlace

SpecTar == InitTar /\ [][NextTar]_vars

\* The tree of the start is back: regular files with their bytes, the
\* directories, and each symbolic link that resolved inside the tree
\* resolving to the same path.
TreeRestored ==
    \A path \in DOMAIN fnIn.fs :
        IsUnder(path, TarRoot) =>
            LET was == fnIn.fs[path]
                r == TarResolve(fnIn.fs, path)
            IN  IF was.kind = "symlink"
                THEN (r.ok /\ IsUnder(r.path, TarRoot)) =>
                        /\ path \in DOMAIN fnOut.fs
                        /\ fnOut.fs[path].kind = "symlink"
                        /\ TarResolve(fnOut.fs, path) = r
                ELSE /\ path \in DOMAIN fnOut.fs
                     /\ fnOut.fs[path] = was

TreeGone == \A path \in DOMAIN fnOut.fs : ~IsUnder(path, TarRoot)

\* C33: Create, removal and Extract, and CreateInPlace then ExtractInPlace,
\* succeed on a directory tree and restore it: every regular file has its
\* bytes, every directory exists, every symbolic link that pointed inside
\* the tree resolves to the same target; after CreateInPlace the directory
\* is gone and the archive is there, after ExtractInPlace the archive is
\* gone.
C33_RoundTrip ==
    /\ (fnPc = "extracted" /\ fnOut.log = <<"Create", "RemoveAll", "Extract">>) =>
          (fnOut.err = NoErr /\ TreeRestored)
    /\ (fnPc = "extracted" /\ fnOut.err = NoErr) => TreeRestored
    /\ (fnPc = "createdInPlace" /\ fnIn.dirPath = TarRoot) =>
          /\ fnOut.err = NoErr
          /\ TreeGone
          /\ ArchiveOf(TarRoot) \in DOMAIN fnOut.fs
    /\ fnPc = "extractedInPlace" =>
          /\ fnOut.err = NoErr
          /\ TreeRestored
          /\ ArchiveOf(TarRoot) \notin DOMAIN fnOut.fs

\* An in-place round trip of a tree with a regular file, a nested
\* directory and, inside it, a symbolic link to the file one level up.
C33_Witness ==
    /\ fnPc = "extractedInPlace"
    /\ fnOut.err = NoErr
    /\ <<"p", "a", "a">> \in DOMAIN fnIn.fs
    /\ <<"p", "b">> \in DOMAIN fnIn.fs
    /\ fnIn.fs[<<"p", "b">>].kind = "file"
    /\ fnIn.fs[<<"p", "a", "a">>] = LinkNode(<<"..", "b">>)
    /\ TarResolve(fnOut.fs, <<"p", "a", "a">>).path = <<"p", "b">>
    /\ fnOut.fs[<<"p", "b">>].bytes = <<2, 1>>

(***************************************************************************)
(* C34 .. C39: further properties of the specifications above.             *)
(***************************************************************************)
CleanupCalls == Cardinality(CallsOf("Cleanup"))

TaskReturned == tkPc = "end" \/ (tkPc \in {"idle", "exited"} /\ tkId > 0)

\* C34: for every task dequeued, r.Cleanup() is called exactly once by the
\* time the closure has returned, whether it returned early (scratch
\* directory, clone or update failure) or ran to its end, never twice, and
\* the task's id is emitted only after that call.
C34_CleanupOnce ==
    /\ CleanupCalls <= 1
    /\ TaskReturned => CleanupCalls = 1
    /\ \A i \in CallsOf("Emit") : \E j \in CallsOf("Cleanup") : j < i

\* A closure that returned early on a failed clone, its Cleanup done,
\* in a worker whose previous task was not emitted either.
C34_Witness ==
    /\ tkPc = "end"
    /\ tkRet # "nil"
    /\ \E i \in 1..Len(tkLog) : FailedAt(i, {"Clone"})
    /\ CleanupCalls = 1
    /\ Len(tkPast) > 0
    /\ ~tkPast[Len(tkPast)].emitted

\* C35: whether a task returns an error depends on its own steps only: a
\* closure returns an error only if a step of its own task (scratch
\* directory, clone, update, removal) returned one, whatever the other
\* workers do.
C35_AsStated ==
    \A w \in Workers :
        wk[w].ret = "err" => wk[w].failedStep # "none"

\* a worker in the middle of a task
InFlight(w) == wk[w].pc \notin {"none", "idle", "exited"}

\* C36: whenever the progress file holds an id written in the running
\* fetch cycle, no task of that cycle with a smaller id is still being
\* processed, for any number of workers.
C36_AsStated ==
    (cycle # 0 /\ fileCycle = cycle /\ Parseable(file)) =>
        \A w \in Workers : InFlight(w) => wk[w].id >= FileValue(file)

\* C37: within one Crawl in listing mode the cursor of the page requests
\* never decreases, not even when a page request was refused and the wait
\* is over.
C37_AsStated ==
    [][~crCfg.UseSearchAPI => crSinceID' >= crSinceID]_vars

\* C38: a rate-limit query that fails while call handles errTooManyCall
\* does not end the crawler abnormally: call goes on to retry fct or
\* returns.
C38_AsStated ==
    callPc # "panicked"

\* C39: however the shutdown started by the interrupt signal interleaves
\* with the workers, no Record is executed on the throttler once Deflate has
\* closed its channels: no worker panics on the closed errChan.
C39_AsStated ==
    shSignal = "interrupt" =>
        \A r \in Recorders : recPc[r] # "panicked"

(***************************************************************************)
(* SpecErrBagLive: the throttler with goroutines that keep running.  A     *)
(* time.Sleep returns and a called Deflate runs its statements (weak       *)
(* fairness).  The select of errLeak picks at random among the cases that  *)
(* can proceed, so a case that can proceed every time the select is        *)
(* reached is picked in the end (strong fairness of "case <-eb.done").     *)
(***************************************************************************)
SpecErrBagLive ==
    /\ InitErrBag
    /\ [][NextErrBag]_vars
    /\ WF_vars(LeakWake)
    /\ SF_vars(LeakDone)
    /\ WF_vars(DeflateCloseDone)
    /\ WF_vars(DeflateCloseErrChan)

\* Deflate has run its first statement, with a leaker started
DeflateCalled == deflatePc # "idle" /\ leakPc # "none"

\* C40: the first statement of Deflate, the send on done, can always
\* proceed, and Deflate then runs to its return; once Deflate has been
\* called the leaker started by Inflate exits in the end, whether it was
\* in its select or in its sleep and whatever errChan holds.
C40_LeakerTerminates ==
    /\ [](deflatePc = "idle" => (~done.closed /\ done.buf < done.cap))
    /\ (deflatePc = "sent") ~> (deflatePc = "returned")
    /\ DeflateCalled ~> (leakPc = "exited")

\* Deflate has returned and the leaker has exited with tokens left in
\* errChan.
C40_Witness ==
    /\ deflatePc = "returned"
    /\ leakPc = "exited"
    /\ errChan.buf > 0
    /\ nRecords > 0
====
